---- MODULE Spec2Model ----
(***************************************************************************)
(* A model of bot.py: the per-user record store (users.json), the fixed    *)
(* window rate limiter, the message dispatcher, the feedback and reminder  *)
(* flows, the profile-edit conversation, broadcast and promote/demote.     *)
(*                                                                         *)
(* Updates are handled one at a time (the Application is built without     *)
(* concurrent_updates), so every handler is one atomic action.             *)
(***************************************************************************)
EXTENDS Integers, Sequences, FiniteSets, TLC

(***************************************************************************)
(* Bounds of the model.                                                    *)
(***************************************************************************)
\* The clock takes the values 0..MaxTime (one unit is one minute).
MaxTime == 3
\* RATE_LIMIT['default']['limit'] (environment RATE_LIMIT_DEFAULT).
LimitDefault == 2
\* RATE_LIMIT['admin']['limit'] (environment RATE_LIMIT_ADMIN).
LimitAdmin == 3
\* RATE_LIMIT[..]['per_seconds'] in clock units (environment RATE_LIMIT_WINDOW).
Window == 1
\* stats.messages_sent is counted up to this value.
MaxMessages == 4
\* The reminder list, the job queue and the broadcast list hold at most this many.
MaxLog == 2

(***************************************************************************)
(* Program constants.                                                      *)
(***************************************************************************)
MaxBio == 500
MaxLocation == 100
MaxInterests == 10
MaxInterestLen == 30
MinutesPerHour == 60
MinutesPerDay == 1440
\* The days from the first datetime to the last one: now + timedelta raises
\* OverflowError for a delta of more days, whatever now is (and timedelta
\* itself raises it for more than 999999999 days).
MaxDateDays == 3652058
HoursPerDay == 24
DaysPerWeek == 7

\* The users that send updates, and the static allow-lists (environment
\* ADMIN_IDS, MODERATOR_IDS).
UserIds == {1, 2, 3}
ADMIN_IDS == {1}
MODERATOR_IDS == {2}

(***************************************************************************)
(* Strings.  A string is a sequence of atoms [t, n]: t = " " is a run of n *)
(* spaces, t = "," is a run of n commas, any other t is a word of n        *)
(* characters none of which is a space or a comma (the word is identified  *)
(* by t and n).  No two space atoms are adjacent.                          *)
(***************************************************************************)
Sp(k) == [t |-> " ", n |-> k]

Comma == [t |-> ",", n |-> 1]

Wd(s, k) == [t |-> s, n |-> k]

IsSpace(a) == a.t = " "

RECURSIVE StrLen(_)
StrLen(s) == IF s = <<>> THEN 0 ELSE Head(s).n + StrLen(Tail(s))

RECURSIVE LStrip(_)
LStrip(s) == IF s = <<>> THEN <<>>
             ELSE IF IsSpace(Head(s)) THEN LStrip(Tail(s)) ELSE s

RECURSIVE RStrip(_)
RStrip(s) == IF s = <<>> THEN <<>>
             ELSE IF IsSpace(s[Len(s)]) THEN RStrip(SubSeq(s, 1, Len(s) - 1)) ELSE s

\* str.strip()
Strip(s) == RStrip(LStrip(s))

\* Adjacent space atoms become one.
RECURSIVE Normalize(_)
Normalize(s) ==
    IF Len(s) < 2 THEN s
    ELSE IF IsSpace(s[1]) /\ IsSpace(s[2])
         THEN Normalize(<<Sp(s[1].n + s[2].n)>> \o SubSeq(s, 3, Len(s)))
         ELSE <<s[1]>> \o Normalize(Tail(s))

\* str.split(sep) for a one-character separator: the pieces between the
\* separators, the empty ones included.
RECURSIVE SplitAcc(_, _, _)
SplitAcc(s, cur, sep) ==
    IF s = <<>> THEN <<cur>>
    ELSE LET a == Head(s) IN
         IF a.t = sep
         THEN <<cur>> \o [i \in 1..(a.n - 1) |-> <<>>] \o SplitAcc(Tail(s), <<>>, sep)
         ELSE SplitAcc(Tail(s), Append(cur, a), sep)

SplitOn(s, sep) == SplitAcc(s, <<>>, sep)

\* str.split(' ', k): at most k splits, each at one space character.
RECURSIVE SplitMax(_, _, _)
SplitMax(s, cur, k) ==
    IF s = <<>> THEN <<cur>>
    ELSE IF k = 0 THEN <<cur \o s>>
    ELSE LET a == Head(s) IN
         IF IsSpace(a)
         THEN <<cur>> \o SplitMax(IF a.n > 1 THEN <<Sp(a.n - 1)>> \o Tail(s) ELSE Tail(s),
                                  <<>>, k - 1)
         ELSE SplitMax(Tail(s), Append(cur, a), k)

\* str.split(): the maximal runs without a space; never an empty piece.
RECURSIVE SplitWs(_, _)
SplitWs(s, cur) ==
    IF s = <<>> THEN (IF cur = <<>> THEN <<>> ELSE <<cur>>)
    ELSE IF IsSpace(Head(s))
         THEN (IF cur = <<>> THEN <<>> ELSE <<cur>>) \o SplitWs(Tail(s), <<>>)
         ELSE SplitWs(Tail(s), Append(cur, Head(s)))

Words(s) == SplitWs(s, <<>>)

\* ' '.join(parts)
RECURSIVE JoinRaw(_)
JoinRaw(parts) ==
    IF parts = <<>> THEN <<>>
    ELSE IF Len(parts) = 1 THEN parts[1]
    ELSE parts[1] \o <<Sp(1)>> \o JoinRaw(Tail(parts))

Join(parts) == Normalize(JoinRaw(parts))

\* s[k:] for a string whose first k characters are whole atoms or part of a
\* run of spaces or commas.
RECURSIVE DropChars(_, _)
DropChars(s, k) ==
    IF k = 0 \/ s = <<>> THEN s
    ELSE LET a == Head(s) IN
         IF a.n <= k THEN DropChars(Tail(s), k - a.n)
         ELSE <<[a EXCEPT !.n = a.n - k]>> \o Tail(s)

\* s.startswith(w + ' ') for a word w.
StartsWithWord(s, w) == Len(s) >= 2 /\ s[1].t = w /\ IsSpace(s[2])

\* s.startswith('/')
StartsWithSlash(s) == s # <<>> /\ s[1].t = "/"

(***************************************************************************)
(* Words with a meaning to the program.                                    *)
(***************************************************************************)
Colon == [t |-> ":", n |-> 1]

\* int(x): the words Python reads as an integer, and their values.
NumTokens == {"0", "00", "5", "09", "14", "30", "1000000000"}

NumVal(t) ==
    CASE t = "0" -> 0 [] t = "00" -> 0 [] t = "5" -> 5
      [] t = "09" -> 9 [] t = "14" -> 14 [] t = "30" -> 30
      [] t = "1000000000" -> 1000000000 [] OTHER -> 0

\* int(x) succeeds: x, with the white space around it dropped, is one number.
IsInt(x) == Len(Strip(x)) = 1 /\ Strip(x)[1].t \in NumTokens

IntOf(x) == NumVal(Strip(x)[1].t)

\* The unit names that unit.lower() contains ('minute' in unit, ...).
UnitsIn(x) ==
    IF Len(x) # 1 THEN {}
    ELSE CASE x[1].t \in {"minutes", "Minutes"} -> {"minute"}
           [] x[1].t = "hours" -> {"hour"}
           [] x[1].t = "days" -> {"day"}
           [] x[1].t = "weeks" -> {"week"}
           [] x[1].t = "weekdays" -> {"day", "week"}
           [] OTHER -> {}

(***************************************************************************)
(* parse_time.  A time is a number of minutes; now is the caller's clock.   *)
(***************************************************************************)
ParseDefault(now) == now + MinutesPerHour

ParseIn(time_str, now) ==
    LET parts == Words(DropChars(time_str, 3)) IN
    IF Len(parts) >= 2 /\ IsInt(parts[1])
    THEN LET amount == IntOf(parts[1])
             unit == UnitsIn(parts[2])
         IN  IF "minute" \in unit THEN now + amount
             ELSE IF "hour" \in unit THEN now + amount * MinutesPerHour
             ELSE IF "day" \in unit THEN now + amount * MinutesPerDay
             ELSE IF "week" \in unit THEN now + amount * DaysPerWeek * MinutesPerDay
             ELSE ParseDefault(now)
    ELSE ParseDefault(now)

ParseAt(time_str, now) ==
    LET time_part == Strip(DropChars(time_str, 3))
        hm == SplitOn(time_part, ":")
    IN  IF Len(hm) = 2 /\ IsInt(hm[1]) /\ IsInt(hm[2])
           /\ IntOf(hm[1]) \in 0..23 /\ IntOf(hm[2]) \in 0..59
        THEN LET reminder_time == (now \div MinutesPerDay) * MinutesPerDay
                                  + IntOf(hm[1]) * MinutesPerHour + IntOf(hm[2])
             IN  IF reminder_time < now THEN reminder_time + MinutesPerDay
                 ELSE reminder_time
        ELSE ParseDefault(now)

\* now + timedelta(<unit>=amount) raises OverflowError when the delta is of
\* more than MaxDateDays days.  The clock is taken to be further than the
\* other amounts of the texts from the last datetime.
Overflows(amount, unit) ==
    IF "minute" \in unit THEN amount \div MinutesPerDay > MaxDateDays
    ELSE IF "hour" \in unit THEN amount \div HoursPerDay > MaxDateDays
    ELSE IF "day" \in unit THEN amount > MaxDateDays
    ELSE IF "week" \in unit THEN amount > MaxDateDays \div DaysPerWeek
    ELSE FALSE

\* parse_time raises: the 'in ' branch catches ValueError and IndexError only.
ParseTimeRaises(time_str) ==
    /\ StartsWithWord(time_str, "in")
    /\ LET parts == Words(DropChars(time_str, 3)) IN
       /\ Len(parts) >= 2
       /\ IsInt(parts[1])
       /\ Overflows(IntOf(parts[1]), UnitsIn(parts[2]))

ParseTime(time_str, now) ==
    IF StartsWithWord(time_str, "in") THEN ParseIn(time_str, now)
    ELSE IF StartsWithWord(time_str, "at") THEN ParseAt(time_str, now)
    ELSE ParseDefault(now)

(***************************************************************************)
(* The user store (users.json): a mapping from user id to record.          *)
(***************************************************************************)
RoleAtCreation(user_id) ==
    IF user_id \in ADMIN_IDS THEN "admin"
    ELSE IF user_id \in MODERATOR_IDS THEN "moderator"
    ELSE "user"

\* The record get_user_data creates.  The two flags are keys the record does
\* not have at creation; user_data.get(flag) is falsy for them, hence FALSE.
DefaultUser(user_id, now) ==
    [chat_mode |-> FALSE,
     first_seen |-> now,
     last_seen |-> now,
     message_count |-> 0,
     language |-> "en",
     role |-> RoleAtCreation(user_id),
     profile |-> [full_name |-> "", username |-> "", bio |-> <<>>,
                  location |-> <<>>, interests |-> <<>>,
                  preferred_topics |-> <<>>, last_activity |-> now],
     settings |-> [notifications |-> TRUE, daily_digest |-> FALSE,
                   privacy |-> [show_last_seen |-> TRUE, show_join_date |-> TRUE,
                                show_activity_stats |-> TRUE],
                   theme |-> "system"],
     stats |-> [commands_used |-> 0, messages_sent |-> 0, media_sent |-> 0,
                stickers_sent |-> 0, voice_messages |-> 0, active_days |-> 1,
                last_command |-> "None", last_command_time |-> "None",
                favorite_commands |-> <<>>],
     rate_limit |-> [count |-> 0, last_reset |-> now],
     achievements |-> [welcome |-> FALSE, early_adopter |-> FALSE,
                       active_user |-> FALSE, feedback_provider |-> FALSE,
                       power_user |-> FALSE],
     metadata |-> [referral_code |-> "", referred_by |-> "", devices |-> <<>>,
                   timezone |-> "UTC"],
     waiting_for_feedback |-> FALSE,
     setting_reminder |-> FALSE]

\* users.json when it cannot be read: missing, or not JSON.  No user has the
\* id 0.
Corrupt == (0 :> "corrupt")

IsCorrupt(file) == 0 \in DOMAIN file

\* The record get_user_data returns when reading the file raised: there is
\* no profile, achievements or metadata in it.
MinimalUser(now) ==
    [chat_mode |-> FALSE,
     first_seen |-> now,
     last_seen |-> now,
     message_count |-> 0,
     language |-> "en",
     role |-> "user",
     settings |-> [notifications |-> TRUE, daily_digest |-> FALSE],
     stats |-> [commands_used |-> 0, messages_sent |-> 0,
                last_command |-> "None", last_command_time |-> "None"],
     rate_limit |-> [count |-> 0, last_reset |-> now],
     waiting_for_feedback |-> FALSE,
     setting_reminder |-> FALSE]

\* save_all_users: the file becomes the mapping given.
SaveAllUsers(file, users_data) == users_data

\* save_user_data that writes a file with the one entry.
SaveUserDataAlone(file, user_id, data) == (user_id :> data)

\* save_user_data: read the file, set the entry, write the file.
SaveUserData(file, user_id, data) ==
    IF IsCorrupt(file) THEN file
    ELSE SaveAllUsers(file, (user_id :> data) @@ file)

\* get_user_data without the save_all_users of the creation branch.
GetUserDataUnsaved(file, user_id, now) ==
    IF user_id \in DOMAIN file
    THEN [data |-> file[user_id], file |-> file, writes |-> 0]
    ELSE [data |-> DefaultUser(user_id, now), file |-> file, writes |-> 0]

\* get_user_data: the record, the file afterwards, and the number of writes.
GetUserData(file, user_id, now) ==
    IF IsCorrupt(file)
    THEN [data |-> MinimalUser(now), file |-> file, writes |-> 0]
    ELSE IF user_id \in DOMAIN file
    THEN [data |-> file[user_id], file |-> file, writes |-> 0]
    ELSE LET created == (user_id :> DefaultUser(user_id, now)) @@ file IN
         [data |-> created[user_id], file |-> SaveAllUsers(file, created), writes |-> 1]

\* get_all_users
GetAllUsers(file) == IF IsCorrupt(file) THEN <<>> ELSE file

\* is_admin that lets every caller through.
IsAdminAnyone(file, user_id, now) == TRUE

\* is_admin by the stored role alone, without the allow-list.
IsAdminByRole(file, user_id, now) ==
    GetUserData(file, user_id, now).data.role = "admin"

\* /demote without the test for a user who is already a user.
AlwaysDemotes(old_role) == TRUE

\* is_admin taken for is_moderator: the moderators would get the higher limit.
IsAdminOrModerator(file, user_id, now) ==
    \/ GetUserData(file, user_id, now).data.role \in {"moderator", "admin"}
    \/ user_id \in MODERATOR_IDS
    \/ user_id \in ADMIN_IDS

\* is_admin and is_moderator read through get_user_data, which creates the
\* record of an unseen id: the value, and the file afterwards.
IsAdminVal(file, user_id, now) ==
    GetUserData(file, user_id, now).data.role = "admin" \/ user_id \in ADMIN_IDS

\* is_moderator without the administrators' allow-list.
IsModeratorNoAdmins(file, user_id, now) ==
    \/ GetUserData(file, user_id, now).data.role \in {"moderator", "admin"}
    \/ user_id \in MODERATOR_IDS

IsModeratorVal(file, user_id, now) ==
    \/ GetUserData(file, user_id, now).data.role \in {"moderator", "admin"}
    \/ user_id \in MODERATOR_IDS
    \/ user_id \in ADMIN_IDS

(***************************************************************************)
(* check_rate_limit: whether the message is accepted, and the file         *)
(* afterwards.                                                             *)
(***************************************************************************)
RateLimitOf(is_admin) == IF is_admin THEN LimitAdmin ELSE LimitDefault

\* if rate_data['count'] > limit: the check one message late.
LimitReachedLate(count, limit) == count > limit

\* if rate_data['count'] >= limit
LimitReached(count, limit) == count >= limit

CheckRateLimit(file, user_id, now) ==
    LET g == GetUserData(file, user_id, now)
        user_data == g.data
        limit == RateLimitOf(IsAdminVal(g.file, user_id, now))
        rate_data == IF now - user_data.rate_limit.last_reset > Window
                     THEN [count |-> 0, last_reset |-> now]
                     ELSE user_data.rate_limit
    IN  IF LimitReached(rate_data.count, limit)
        THEN [ok |-> FALSE, file |-> g.file]
        ELSE [ok |-> TRUE,
              file |-> SaveUserData(g.file, user_id,
                          [user_data EXCEPT !.rate_limit =
                              [rate_data EXCEPT !.count = @ + 1]])]

(***************************************************************************)
(* The state.                                                              *)
(***************************************************************************)
VARIABLES
    users,       \* users.json: user id -> record
    feedbacks,   \* feedback.json: key (a timestamp) -> entry
    reminders,   \* reminders.json: the list of reminder records
    broadcasts,  \* broadcasts.json: the list of broadcast records
    jobs,        \* the host scheduler's one-shot jobs not yet run
    clock,       \* datetime.now() and time.time()
    conv,        \* the profile conversation's state, per user
    editing,     \* context.user_data['editing'], per user
    last,        \* what the last handler was given and what it answered
    prev,        \* the role command handled just before the last handler, if any
    accepted,    \* per user: messages accepted since rate_limit.last_reset was set
    inflight,    \* per user: the record a handler holds across an await, if any
    main         \* main(): where it is, its environment and what it has registered

vars == <<users, feedbacks, reminders, broadcasts, jobs, clock, conv, editing,
          last, prev, accepted, inflight, main>>

NoEvent ==
    [op |-> "none", user |-> 0, target |-> 0, text |-> <<>>, chat |-> "",
     reply |-> <<>>, route |-> "", ok |-> FALSE, time |-> 0, prevReset |-> 0,
     writes |-> 0, ret |-> <<>>, logged |-> "", sent |-> <<>>, failed |-> {},
     history |-> <<>>, ai_called |-> FALSE]

Event(op, user, text, chat) ==
    [NoEvent EXCEPT !.op = op, !.user = user, !.text = text, !.chat = chat,
                    !.time = clock]

NoPrev == [op |-> "none", user |-> 0, target |-> 0, role |-> "", ok |-> FALSE]

\* The summary of the last handler kept for one more step.
Summary(e) ==
    IF e.op \in {"promote", "demote"}
    THEN [op |-> e.op, user |-> e.user, target |-> e.target, role |-> e.route,
          ok |-> e.ok]
    ELSE NoPrev

\* The handlers main() adds, in its order (the conversation of /profile is
\* one handler).
Registered ==
    <<"start", "help", "contact", "chat", "endchat", "feedback", "remindme",
      "broadcast", "language", "setlanguage", "myinfo", "profile_conv_handler",
      "owner", "status", "users", "promote", "demote", "button_callback",
      "handle_message">>

\* main() at a position, with the environment it runs in: whether
\* TELEGRAM_BOT_TOKEN is set, and whether the host library was installed
\* with its job queue (application.job_queue is None without).
MainAt(pc, token, job_queue) ==
    [pc |-> pc, token |-> token, job_queue |-> job_queue, handlers |-> <<>>,
     error_handlers |-> <<>>, daily |-> <<>>, printed |-> <<>>]

\* The state the handlers are specified in: run_polling dispatches updates
\* to the handlers added.
Polling ==
    [MainAt("polling", TRUE, TRUE) EXCEPT
        !.handlers = Registered, !.error_handlers = <<"error_handler">>,
        !.daily = <<"send_daily_stats">>, !.printed = <<"running">>]

Init ==
    /\ users = <<>>
    /\ feedbacks = <<>>
    /\ reminders = <<>>
    /\ broadcasts = <<>>
    /\ jobs = <<>>
    /\ clock = 0
    /\ conv = [u \in UserIds |-> "END"]
    /\ editing = [u \in UserIds |-> "None"]
    /\ last = NoEvent
    /\ prev = NoPrev
    /\ accepted = [u \in UserIds |-> 0]
    /\ inflight = [u \in UserIds |-> <<>>]
    /\ main = Polling

\* Time passes.
Tick ==
    /\ clock < MaxTime
    /\ clock' = clock + 1
    /\ UNCHANGED <<users, feedbacks, reminders, broadcasts, jobs, conv, editing,
                   last, prev, accepted, inflight, main>>

(***************************************************************************)
(* Reminders: the part remind_me and handle_reminder share.                *)
(***************************************************************************)
\* save_reminder
SaveReminder(list, user_id, reminder_time, message, now) ==
    Append(list, [user_id |-> user_id, time |-> reminder_time,
                  message |-> message, created_at |-> now])

\* job_queue.run_once(send_reminder, delay, data=job_context) with
\* delay = reminder_time - now: the job runs at reminder_time.
RunOnce(queue, chat_id, user_id, message, reminder_time) ==
    Append(queue, [chat_id |-> chat_id, user_id |-> user_id,
                   message |-> message, due |-> reminder_time])

\* The test for a future time with >= in place of >.
ScheduleNotPast(queue, list, chat_id, user_id, reminder_time, message, now) ==
    IF reminder_time >= now
    THEN [jobs |-> RunOnce(queue, chat_id, user_id, message, reminder_time),
          reminders |-> SaveReminder(list, user_id, reminder_time, message, now),
          reply |-> "will_remind"]
    ELSE [jobs |-> queue, reminders |-> list, reply |-> "not_future"]

\* if reminder_time > datetime.now(): schedule, reply, save; else the error.
Schedule(queue, list, chat_id, user_id, reminder_time, message, now) ==
    IF reminder_time > now
    THEN [jobs |-> RunOnce(queue, chat_id, user_id, message, reminder_time),
          reminders |-> SaveReminder(list, user_id, reminder_time, message, now),
          reply |-> "will_remind"]
    ELSE [jobs |-> queue, reminders |-> list, reply |-> "not_future"]

DefaultMessage == <<Wd("Reminder!", 9)>>

\* remind_me with context.args = args (not empty): args[0] alone is parsed.
RemindMeArgs(queue, list, chat_id, user_id, args, now) ==
    LET time_str == args[1]
        message == IF Len(args) > 1 THEN Join(Tail(args)) ELSE DefaultMessage
    IN  Schedule(queue, list, chat_id, user_id, ParseTime(time_str, now), message, now)

\* handle_reminder: the effect on the file, the queue and the list.
HandleReminder(file, queue, list, chat_id, user_id, text, now) ==
    LET g == GetUserData(file, user_id, now)
        user_data == g.data
        parts == SplitMax(Strip(text), <<>>, 2)
    IN  IF ~user_data.setting_reminder
        THEN [file |-> g.file, jobs |-> queue, reminders |-> list, reply |-> <<>>]
        ELSE IF Len(parts) < 2
        THEN [file |-> g.file, jobs |-> queue, reminders |-> list,
              reply |-> <<"invalid_format">>]
        ELSE LET time_str == Normalize(<<Wd("in", 2), Sp(1)>> \o parts[1]
                                       \o <<Sp(1)>> \o parts[2])
                 message == IF Len(parts) > 2 THEN parts[3] ELSE DefaultMessage
                 r == Schedule(queue, list, chat_id, user_id,
                               ParseTime(time_str, now), message, now)
             IN  [file |-> SaveUserData(g.file, user_id,
                              [user_data EXCEPT !.setting_reminder = FALSE]),
                  jobs |-> r.jobs, reminders |-> r.reminders, reply |-> <<r.reply>>]

(***************************************************************************)
(* Feedback.                                                               *)
(***************************************************************************)
\* The key of a new entry: str(datetime.now().timestamp()).
FeedbackKey(now) == now

\* feedback.json that holds a list, or no JSON at all: json.load or the
\* assignment of the entry raises, and handle_feedback logs it and goes on.
NotAMapping == (-1 :> "list")

IsMapping(fb) == -1 \notin DOMAIN fb

\* handle_feedback: the effect on the feedback file and on the user file.
HandleFeedback(file, fb, user_id, text, now) ==
    LET entry == [user_id |-> user_id, text |-> text, timestamp |-> now]
        g == GetUserData(file, user_id, now)
    IN  [feedbacks |-> IF IsMapping(fb) THEN (FeedbackKey(now) :> entry) @@ fb
                       ELSE fb,
         file |-> SaveUserData(g.file, user_id,
                     [g.data EXCEPT !.waiting_for_feedback = FALSE])]

(***************************************************************************)
(* handle_message                                                          *)
(***************************************************************************)
\* f"@{context.bot.username}" in message_text
Mentions(text) == \E i \in 1..Len(text) : text[i].t = "@bot"

\* The branches with the pending flags tested before chat_mode.
RouteFlagsFirst(user_data, text, chat) ==
    IF chat = "private" /\ user_data.waiting_for_feedback THEN "feedback"
    ELSE IF chat = "private" /\ user_data.setting_reminder THEN "reminder"
    ELSE IF user_data.chat_mode THEN "ai"
    ELSE IF chat \in {"group", "supergroup"}
         THEN (IF Mentions(text) THEN "intro" ELSE "none")
    ELSE IF chat = "private" /\ ~StartsWithSlash(text) THEN "nudge"
    ELSE "none"

\* The user's line written before the rate limiter is asked.
HistoryLinesFirst(route, ai) ==
    IF route = "ai" /\ ai # "send_error" THEN <<"user", "bot">> ELSE <<"user">>

\* save_chat_history: the lines a message adds to the transcript.  A
\* rejected message returns before the first of them.  In chat mode the
\* bot's line follows the reply with what get_ai_response returned, the
\* provider's answer or, the provider's error being caught there, its
\* apology; when that reply cannot be sent the handler's own except branch
\* apologises and the bot's line is not written.
HistoryLines(route, ai) ==
    IF route = "rejected" THEN <<>>
    ELSE IF route = "ai" /\ ai # "send_error" THEN <<"user", "bot">>
    ELSE <<"user">>

\* The branch handle_message takes for an accepted message.
Route(user_data, text, chat) ==
    IF user_data.chat_mode THEN "ai"
    ELSE IF chat \in {"group", "supergroup"}
         THEN (IF Mentions(text) THEN "intro" ELSE "none")
    ELSE IF chat = "private"
         THEN (IF user_data.waiting_for_feedback THEN "feedback"
               ELSE IF user_data.setting_reminder THEN "reminder"
               ELSE IF ~StartsWithSlash(text) THEN "nudge"
               ELSE "none")
    ELSE "none"

\* The chat an update of this user comes from.
ChatId(user, chat) == IF chat = "private" THEN user ELSE 0

\* The handler returns at once on an empty text or a channel post.  A text
\* message in the private chat reaches it only when the profile conversation
\* does not take it (the conversation handler is registered first).
HandleMessage(user, text, chat, ai) ==
    /\ text # <<>>
    /\ chat # "channel"
    /\ chat = "private" => conv[user] # "EDIT_VALUE"
    /\ user \in DOMAIN users => users[user].stats.messages_sent < MaxMessages
    /\ \E g \in {GetUserData(users, user, clock)} :
       \E user_data \in {[g.data EXCEPT !.last_seen = clock,
                                        !.stats.messages_sent = @ + 1]} :
       \E rl \in {CheckRateLimit(SaveUserData(g.file, user, user_data), user, clock)} :
       \E route \in {IF rl.ok THEN Route(user_data, text, chat) ELSE "rejected"} :
       \E fb \in {IF route = "feedback"
                  THEN HandleFeedback(rl.file, feedbacks, user, text, clock)
                  ELSE [feedbacks |-> feedbacks, file |-> rl.file]} :
       \E rm \in {IF route = "reminder"
                  THEN HandleReminder(rl.file, jobs, reminders, ChatId(user, chat),
                                      user, text, clock)
                  ELSE [file |-> rl.file, jobs |-> jobs, reminders |-> reminders,
                        reply |-> <<>>]} :
           /\ Len(rm.reminders) <= MaxLog
           /\ users' = (CASE route = "feedback" -> fb.file
                          [] route = "reminder" -> rm.file
                          [] OTHER -> rl.file)
           /\ feedbacks' = fb.feedbacks
           /\ jobs' = rm.jobs
           /\ reminders' = rm.reminders
           /\ last' = [Event("message", user, text, chat) EXCEPT
                 !.ok = rl.ok,
                 !.route = route,
                 !.prevReset = g.data.rate_limit.last_reset,
                 !.writes = g.writes,
                 !.history = HistoryLines(route, ai),
                 !.ai_called = (route = "ai"),
                 !.reply =
                    CASE route = "rejected" -> <<"too_fast">>
                      [] route = "ai" -> (CASE ai = "ok" -> <<"ai_response">>
                                            [] ai = "provider_error" -> <<"ai_apology">>
                                            [] OTHER -> <<"chat_apology">>)
                      [] route = "intro" -> <<"introduction">>
                      [] route = "feedback" -> <<"thanks">>
                      [] route = "reminder" -> rm.reply
                      [] route = "nudge" -> <<"use_chat">>
                      [] OTHER -> <<>>]
           /\ accepted' = [accepted EXCEPT ![user] =
                 IF rl.file[user].rate_limit.last_reset # g.data.rate_limit.last_reset
                 THEN (IF rl.ok THEN 1 ELSE 0)
                 ELSE (IF rl.ok THEN @ + 1 ELSE @)]
    /\ prev' = Summary(last)
    /\ UNCHANGED <<broadcasts, clock, conv, editing, inflight, main>>

(***************************************************************************)
(* /chat, /endchat, /feedback                                              *)
(***************************************************************************)
\* A command that went through the limiter first: the count would move and a
\* caller at the limit would keep the old flag.
SetFieldLimited(file, user, now, field, value) ==
    LET c == CheckRateLimit(file, user, now)
        g == GetUserData(c.file, user, now)
    IN  IF c.ok THEN SaveUserData(g.file, user, [g.data EXCEPT ![field] = value])
        ELSE c.file

\* A command that flips the flag in place of setting it.
SetFieldFlipped(file, user, now, field, value) ==
    LET g == GetUserData(file, user, now) IN
    SaveUserData(g.file, user, [g.data EXCEPT ![field] = ~g.data[field]])

SetField(file, user, now, field, value) ==
    LET g == GetUserData(file, user, now) IN
    SaveUserData(g.file, user, [g.data EXCEPT ![field] = value])

ChatMode(user) ==
    /\ users' = SetField(users, user, clock, "chat_mode", TRUE)
    /\ last' = [Event("chat", user, <<>>, "private") EXCEPT
                  !.reply = <<"chat_on">>, !.logged = "/chat"]
    /\ prev' = Summary(last)
    /\ UNCHANGED <<feedbacks, reminders, broadcasts, jobs, clock, conv, editing,
                   accepted, inflight, main>>

EndChat(user) ==
    /\ users' = SetField(users, user, clock, "chat_mode", FALSE)
    /\ last' = [Event("endchat", user, <<>>, "private") EXCEPT
                  !.reply = <<"chat_off">>, !.logged = "/endchat"]
    /\ prev' = Summary(last)
    /\ UNCHANGED <<feedbacks, reminders, broadcasts, jobs, clock, conv, editing,
                   accepted, inflight, main>>

FeedbackCommand(user) ==
    /\ users' = SetField(users, user, clock, "waiting_for_feedback", TRUE)
    /\ last' = [Event("feedback", user, <<>>, "private") EXCEPT
                  !.reply = <<"ask_feedback">>, !.logged = "/feedback"]
    /\ prev' = Summary(last)
    /\ UNCHANGED <<feedbacks, reminders, broadcasts, jobs, clock, conv, editing,
                   accepted, inflight, main>>

\* The sections of the /help text: the commands of every user, then the
\* moderator commands (with /broadcast) for is_moderator, then the admin
\* commands for is_admin.
HelpText(file, user_id, now) ==
    <<"help">>
    \o (IF IsModeratorVal(file, user_id, now) THEN <<"moderator_commands">> ELSE <<>>)
    \o (IF IsAdminVal(file, user_id, now) THEN <<"admin_commands">> ELSE <<>>)

\* /help: reads the caller's record and shows the text and the keyboard with
\* the buttons "Start Chat" and "Feedback".
HelpCommand(user) ==
    /\ \E g \in {GetUserData(users, user, clock)} :
          /\ users' = g.file
          /\ last' = [Event("help", user, <<>>, "private") EXCEPT
                        !.reply = HelpText(g.file, user, clock),
                        !.logged = "/help",
                        !.writes = g.writes]
    /\ prev' = Summary(last)
    /\ UNCHANGED <<feedbacks, reminders, broadcasts, jobs, clock, conv, editing,
                   accepted, inflight, main>>

\* The button "Start Chat" of the /help message, pressed when that message
\* is the last thing in the chat, once or again.  button_callback calls
\* chat_mode with the update of the button: the flag is set and stored, then
\* update.message is None and reply_text raises.
StartChatButton(user) ==
    /\ last.user = user
    /\ last.op \in {"help", "start_chat_button"}
    /\ users' = SetField(users, user, clock, "chat_mode", TRUE)
    /\ last' = [Event("start_chat_button", user, <<>>, "private") EXCEPT
                  !.route = "AttributeError"]
    /\ prev' = Summary(last)
    /\ UNCHANGED <<feedbacks, reminders, broadcasts, jobs, clock, conv, editing,
                   accepted, inflight, main>>

\* The button "Feedback" of the /help message.  button_callback calls
\* feedback_command with the update of the button: the flag is set and
\* stored, then update.message is None and reply_text raises.  The error
\* handler finds no update.message to answer either.
GiveFeedbackButton(user) ==
    /\ last.user = user
    /\ last.op \in {"help", "start_chat_button", "give_feedback_button"}
    /\ users' = SetField(users, user, clock, "waiting_for_feedback", TRUE)
    /\ last' = [Event("give_feedback_button", user, <<>>, "private") EXCEPT
                  !.route = "AttributeError"]
    /\ prev' = Summary(last)
    /\ UNCHANGED <<feedbacks, reminders, broadcasts, jobs, clock, conv, editing,
                   accepted, inflight, main>>

(***************************************************************************)
(* /language: reads the caller's record and shows the keyboard.            *)
(***************************************************************************)
LanguageCommand(user) ==
    /\ \E g \in {GetUserData(users, user, clock)} :
          /\ users' = g.file
          /\ last' = [Event("language", user, <<>>, "private") EXCEPT
                        !.reply = <<"select_language">>, !.logged = "/language",
                        !.ret = <<g.data>>, !.writes = g.writes]
    /\ prev' = Summary(last)
    /\ UNCHANGED <<feedbacks, reminders, broadcasts, jobs, clock, conv, editing,
                   accepted, inflight, main>>

(***************************************************************************)
(* /remindme and the delivery of a reminder.                               *)
(***************************************************************************)
\* /remindme that sets setting_reminder and stores it before anything else.
RemindMeSetsFlag(user, text, chat) ==
    /\ \E g \in {GetUserData(users, user, clock)} :
       \E args \in {Words(text)} :
       \E r \in {IF args # <<>>
                 THEN RemindMeArgs(jobs, reminders, ChatId(user, chat), user, args, clock)
                 ELSE [jobs |-> jobs, reminders |-> reminders, reply |-> "usage"]} :
          /\ Len(r.reminders) <= MaxLog
          /\ users' = SaveUserData(g.file, user,
                                   [g.data EXCEPT !.setting_reminder = TRUE])
          /\ jobs' = r.jobs
          /\ reminders' = r.reminders
          /\ last' = [Event("remindme", user, text, chat) EXCEPT
                        !.reply = <<r.reply>>, !.writes = g.writes]
    /\ prev' = Summary(last)
    /\ UNCHANGED <<feedbacks, broadcasts, clock, conv, editing, accepted, inflight,
                   main>>

\* context.args are the words after the command.
RemindMe(user, text, chat) ==
    /\ \E g \in {GetUserData(users, user, clock)} :
       \E args \in {Words(text)} :
       \E r \in {IF args # <<>>
                 THEN RemindMeArgs(jobs, reminders, ChatId(user, chat), user, args, clock)
                 ELSE [jobs |-> jobs, reminders |-> reminders, reply |-> "usage"]} :
          /\ Len(r.reminders) <= MaxLog
          /\ users' = g.file
          /\ jobs' = r.jobs
          /\ reminders' = r.reminders
          /\ last' = [Event("remindme", user, text, chat) EXCEPT
                        !.reply = <<r.reply>>, !.writes = g.writes]
    /\ prev' = Summary(last)
    /\ UNCHANGED <<feedbacks, broadcasts, clock, conv, editing, accepted, inflight,
                   main>>

\* The part of remind_me after parse_time, for a computed time at a distance
\* from now: the test, the job, the reply and the record.
ScheduleCall(user, distance) ==
    /\ \E r \in {Schedule(jobs, reminders, user, user, clock + distance,
                          DefaultMessage, clock)} :
          /\ Len(r.reminders) <= MaxLog
          /\ jobs' = r.jobs
          /\ reminders' = r.reminders
          /\ last' = [Event("schedule", user, <<>>, "private") EXCEPT
                        !.reply = <<r.reply>>, !.ret = <<clock + distance>>]
    /\ prev' = Summary(last)
    /\ UNCHANGED <<users, feedbacks, broadcasts, clock, conv, editing, accepted,
                   inflight, main>>

\* The host's timer: time passes until the next job is due.
Due == {jobs[i].due : i \in 1..Len(jobs)}

WaitForJob ==
    /\ jobs # <<>>
    /\ \A d \in Due : clock < d
    /\ clock' = CHOOSE d \in Due : \A e \in Due : d <= e
    /\ UNCHANGED <<users, feedbacks, reminders, broadcasts, jobs, conv, editing,
                   last, prev, accepted, inflight, main>>

\* The text of the reminder is put into a Markdown message as it is: the
\* platform refuses a message in which an underscore opens an entity that
\* is never closed, and send_message raises.
MarkdownOk(message) == \A k \in 1..Len(message) : message[k].t # "call_mom"

\* send_reminder, run once by the host when the job is due: the job is gone
\* whether or not the message was sent.
SendReminder(i) ==
    /\ i \in 1..Len(jobs)
    /\ jobs[i].due <= clock
    /\ jobs' = SubSeq(jobs, 1, i - 1) \o SubSeq(jobs, i + 1, Len(jobs))
    /\ last' = [Event("send_reminder", jobs[i].user_id, jobs[i].message, "") EXCEPT
                  !.target = jobs[i].chat_id,
                  !.ok = MarkdownOk(jobs[i].message),
                  !.reply = IF MarkdownOk(jobs[i].message) THEN <<"reminder">>
                            ELSE <<>>]
    /\ prev' = Summary(last)
    /\ UNCHANGED <<users, feedbacks, reminders, broadcasts, clock, conv, editing,
                   accepted, inflight, main>>

(***************************************************************************)
(* /broadcast                                                              *)
(***************************************************************************)
\* The recipients in the order of the loop.  The loop follows the order of the
\* keys in the file; the tallies are the same in any order, and the ascending
\* one is taken.
RECURSIVE Ascending(_)
Ascending(S) ==
    IF S = {} THEN <<>>
    ELSE LET m == CHOOSE x \in S : \A y \in S : x <= y IN <<m>> \o Ascending(S \ {m})

\* The loop gives up at the first failed send.
RECURSIVE BroadcastLoopAborting(_, _, _)
BroadcastLoopAborting(ids, fails, acc) ==
    IF ids = <<>> THEN acc
    ELSE IF Head(ids) \in fails
         THEN [acc EXCEPT !.failed = @ + 1, !.sent = Append(@, Head(ids))]
         ELSE BroadcastLoopAborting(Tail(ids), fails,
                 [acc EXCEPT !.success = @ + 1, !.sent = Append(@, Head(ids))])

\* for user_id_str in users: try send, success += 1; except: failed += 1
RECURSIVE BroadcastLoop(_, _, _)
BroadcastLoop(ids, fails, acc) ==
    IF ids = <<>> THEN acc
    ELSE BroadcastLoop(Tail(ids), fails,
            IF Head(ids) \in fails
            THEN [acc EXCEPT !.failed = @ + 1, !.sent = Append(@, Head(ids))]
            ELSE [acc EXCEPT !.success = @ + 1, !.sent = Append(@, Head(ids))])

\* save_broadcast
SaveBroadcast(list, admin_id, message, total, success, failed, now) ==
    Append(list, [admin_id |-> admin_id, timestamp |-> now, message |-> message,
                  total_recipients |-> total, successful |-> success,
                  failed |-> failed])

\* fails: the recipients the platform refuses the message for.
BroadcastMessage(user, text, fails) ==
    /\ \E g \in {GetUserData(users, user, clock)} :
       \E args \in {Words(text)} :
          /\ users' = g.file
          /\ IF ~IsAdminVal(g.file, user, clock)
             THEN /\ broadcasts' = broadcasts
                  /\ last' = [Event("broadcast", user, text, "private") EXCEPT
                                !.reply = <<"admins_only">>]
             ELSE IF args = <<>>
             THEN /\ broadcasts' = broadcasts
                  /\ last' = [Event("broadcast", user, text, "private") EXCEPT
                                !.reply = <<"usage">>]
             ELSE \E all \in {GetAllUsers(g.file)} :
                  \E done \in {BroadcastLoop(Ascending(DOMAIN all), fails,
                                  [success |-> 0, failed |-> 0, sent |-> <<>>])} :
                     /\ fails \subseteq DOMAIN all
                     /\ Len(broadcasts) < MaxLog
                     /\ broadcasts' = SaveBroadcast(broadcasts, user, Join(args),
                                         Cardinality(DOMAIN all), done.success,
                                         done.failed, clock)
                     /\ last' = [Event("broadcast", user, text, "private") EXCEPT
                                   !.ok = TRUE,
                                   !.reply = <<"broadcast_sent">>,
                                   !.ret = <<[total |-> Cardinality(DOMAIN all),
                                              successful |-> done.success,
                                              failed |-> done.failed]>>,
                                   !.sent = done.sent,
                                   !.failed = fails]
    /\ prev' = Summary(last)
    /\ UNCHANGED <<feedbacks, reminders, jobs, clock, conv, editing, accepted,
                   inflight, main>>

(***************************************************************************)
(* The hidden commands /owner and /status, and /users.                     *)
(***************************************************************************)
\* /owner: the allow-list alone decides; the store is not read.
Owner(user) ==
    /\ last' = [Event("owner", user, <<>>, "private") EXCEPT
                  !.ok = user \in ADMIN_IDS,
                  !.reply = IF user \in ADMIN_IDS THEN <<"owner_commands">>
                            ELSE <<"no_permission">>,
                  !.logged = "/owner (hidden)"]
    /\ prev' = Summary(last)
    /\ UNCHANGED <<users, feedbacks, reminders, broadcasts, jobs, clock, conv,
                   editing, accepted, inflight, main>>

\* /status: the allow-list alone decides; the files are read, not written.
Status(user) ==
    /\ last' = [Event("status", user, <<>>, "private") EXCEPT
                  !.ok = user \in ADMIN_IDS,
                  !.reply = IF user \in ADMIN_IDS THEN <<"status">>
                            ELSE <<"no_permission">>,
                  !.logged = "/status (hidden)"]
    /\ prev' = Summary(last)
    /\ UNCHANGED <<users, feedbacks, reminders, broadcasts, jobs, clock, conv,
                   editing, accepted, inflight, main>>

\* /users: is_admin reads the caller's record, which creates it.
ListUsers(user) ==
    /\ \E g \in {GetUserData(users, user, clock)} :
          /\ users' = g.file
          /\ IF ~IsAdminVal(g.file, user, clock)
             THEN last' = [Event("users", user, <<>>, "private") EXCEPT
                             !.reply = <<"admins_only">>]
             ELSE IF GetAllUsers(g.file) = <<>>
             THEN last' = [Event("users", user, <<>>, "private") EXCEPT
                             !.ok = TRUE, !.reply = <<"no_users">>]
             ELSE last' = [Event("users", user, <<>>, "private") EXCEPT
                             !.ok = TRUE, !.reply = <<"user_statistics">>,
                             !.logged = "/users"]
    /\ prev' = Summary(last)
    /\ UNCHANGED <<feedbacks, reminders, broadcasts, jobs, clock, conv, editing,
                   accepted, inflight, main>>

(***************************************************************************)
(* /promote and /demote                                                    *)
(***************************************************************************)
\* /promote sets the stored role to the one asked for.
PromotedRole(new_role) == IF new_role = "moderator" THEN "moderator" ELSE "admin"

\* /demote leaves the role of a user who is already a user alone.
NeedsDemotion(old_role) == old_role # "user"

\* role_arg: the second word of the command, lower-cased; "" when absent.
PromoteUser(user, target, role_arg) ==
    /\ \E g \in {GetUserData(users, user, clock)} :
       \E new_role \in {IF role_arg = "" THEN "moderator" ELSE role_arg} :
       \E ev \in {[Event("promote", user, <<>>, "private") EXCEPT
                     !.target = target, !.route = new_role]} :
          IF ~IsAdminVal(g.file, user, clock)
          THEN /\ users' = g.file
               /\ last' = [ev EXCEPT !.reply = <<"admins_only">>]
          ELSE IF new_role \notin {"moderator", "admin"}
          THEN /\ users' = g.file
               /\ last' = [ev EXCEPT !.reply = <<"invalid_role">>]
          ELSE \E t \in {GetUserData(g.file, target, clock)} :
               /\ users' = SaveUserData(t.file, target,
                              [t.data EXCEPT !.role = PromotedRole(new_role)])
               /\ last' = [ev EXCEPT !.ok = TRUE, !.reply = <<"promoted">>,
                                     !.ret = <<t.data.role>>, !.logged = "/promote"]
    /\ prev' = Summary(last)
    /\ UNCHANGED <<feedbacks, reminders, broadcasts, jobs, clock, conv, editing,
                   accepted, inflight, main>>

DemoteUser(user, target) ==
    /\ \E g \in {GetUserData(users, user, clock)} :
       \E ev \in {[Event("demote", user, <<>>, "private") EXCEPT !.target = target]} :
          IF ~IsAdminVal(g.file, user, clock)
          THEN /\ users' = g.file
               /\ last' = [ev EXCEPT !.reply = <<"admins_only">>]
          ELSE \E t \in {GetUserData(g.file, target, clock)} :
               IF ~NeedsDemotion(t.data.role)
               THEN /\ users' = t.file
                    /\ last' = [ev EXCEPT !.reply = <<"already_regular_user">>,
                                          !.ret = <<t.data.role>>]
               ELSE /\ users' = SaveUserData(t.file, target,
                                   [t.data EXCEPT !.role = "user"])
                    /\ last' = [ev EXCEPT !.ok = TRUE, !.reply = <<"demoted">>,
                                          !.ret = <<t.data.role>>, !.logged = "/demote"]
    /\ prev' = Summary(last)
    /\ UNCHANGED <<feedbacks, reminders, broadcasts, jobs, clock, conv, editing,
                   accepted, inflight, main>>

(***************************************************************************)
(* The profile conversation: /profile, the buttons, the text that is the   *)
(* new value, /cancel.                                                     *)
(***************************************************************************)
\* profile(): the file afterwards.  The name comes from the platform's user
\* (first_name is never empty).
ProfileRaises(file, user, now) ==
    "profile" \notin DOMAIN GetUserData(file, user, now).data

Profile(file, user, now) ==
    LET g == GetUserData(file, user, now) IN
    IF ProfileRaises(file, user, now) THEN g.file
    ELSE IF g.data.profile.full_name = ""
    THEN SaveUserData(g.file, user,
            [g.data EXCEPT !.profile.full_name = "full name",
                           !.profile.username = "username",
                           !.profile.last_activity = now])
    ELSE g.file

\* [i.strip() for i in value.split(',') if i.strip()]
RECURSIVE StripAll(_)
StripAll(pieces) ==
    IF pieces = <<>> THEN <<>>
    ELSE IF Strip(Head(pieces)) = <<>> THEN StripAll(Tail(pieces))
    ELSE <<Strip(Head(pieces))>> \o StripAll(Tail(pieces))

InterestsOf(value) == StripAll(SplitOn(value, ","))

\* if len(value) > limit: the value is too long.  (limit: 500 for the bio,
\* 100 for the location.)
TooLongOrEqual(value, limit) == StrLen(value) >= limit

TooLong(value, limit) == StrLen(value) > limit

\* if len(interests) >= 10: one entry fewer is allowed.
TooManyOrEqual(interests) == Len(interests) >= MaxInterests

\* if len(interests) > 10
TooMany(interests) == Len(interests) > MaxInterests

\* The check of the entries' lengths left out.
NoneTooLong(interests) == FALSE

\* any(len(interest) > 30 for interest in interests)
AnyTooLong(interests) ==
    \E i \in 1..Len(interests) : StrLen(interests[i]) > MaxInterestLen

\* save_profile_edit up to its return: the reply, whether the value was
\* taken, and the record to save.
EditResult(user_data, field, value) ==
    CASE field = "bio" ->
           IF TooLong(value, MaxBio)
           THEN [ok |-> FALSE, reply |-> "bio_too_long", data |-> user_data]
           ELSE [ok |-> TRUE, reply |-> "bio_updated",
                 data |-> [user_data EXCEPT !.profile.bio = value]]
      [] field = "location" ->
           IF TooLong(value, MaxLocation)
           THEN [ok |-> FALSE, reply |-> "location_too_long", data |-> user_data]
           ELSE [ok |-> TRUE, reply |-> "location_updated",
                 data |-> [user_data EXCEPT !.profile.location = value]]
      [] field = "interests" ->
           IF TooMany(InterestsOf(value))
           THEN [ok |-> FALSE, reply |-> "too_many_interests", data |-> user_data]
           ELSE IF AnyTooLong(InterestsOf(value))
           THEN [ok |-> FALSE, reply |-> "interest_too_long", data |-> user_data]
           ELSE [ok |-> TRUE, reply |-> "interests_updated",
                 data |-> [user_data EXCEPT !.profile.interests = InterestsOf(value)]]
      [] OTHER -> [ok |-> TRUE, reply |-> "", data |-> user_data]

\* /profile starts the conversation; while it runs, /profile is not an
\* entry point (no allow_reentry) and no other handler takes it.
ProfileCommand(user) ==
    /\ conv[user] = "END"
    /\ users' = Profile(users, user, clock)
    /\ IF ProfileRaises(users, user, clock)
       THEN /\ conv' = conv
            /\ last' = [Event("profile", user, <<>>, "private") EXCEPT
                          !.route = "KeyError", !.reply = <<"error_notice">>]
       ELSE /\ conv' = [conv EXCEPT ![user] = "PROFILE"]
            /\ last' = [Event("profile", user, <<>>, "private") EXCEPT
                          !.reply = <<"profile">>]
    /\ prev' = Summary(last)
    /\ UNCHANGED <<feedbacks, reminders, broadcasts, jobs, clock, editing, accepted,
                   inflight, main>>

\* /myinfo: the same reading and completing of the profile, outside of the
\* conversation.
MyInfo(user) ==
    /\ users' = Profile(users, user, clock)
    /\ IF ProfileRaises(users, user, clock)
       THEN last' = [Event("myinfo", user, <<>>, "private") EXCEPT
                       !.route = "KeyError", !.reply = <<"error_notice">>]
       ELSE last' = [Event("myinfo", user, <<>>, "private") EXCEPT
                       !.reply = <<"info">>, !.logged = "/myinfo"]
    /\ prev' = Summary(last)
    /\ UNCHANGED <<feedbacks, reminders, broadcasts, jobs, clock, conv, editing,
                   accepted, inflight, main>>

\* The button "Edit Profile".
EditProfile(user) ==
    /\ conv[user] = "PROFILE"
    /\ conv' = [conv EXCEPT ![user] = "EDIT_CHOICE"]
    /\ last' = [Event("edit_profile", user, <<>>, "private") EXCEPT
                  !.reply = <<"what_to_edit">>]
    /\ prev' = Summary(last)
    /\ UNCHANGED <<users, feedbacks, reminders, broadcasts, jobs, clock, editing,
                   accepted, inflight, main>>

\* A button whose data starts with edit_ (pattern "^edit_"): the three
\* fields, and the "Edit Profile" button of an earlier profile message.
HandleEditChoice(user, choice) ==
    /\ conv[user] = "EDIT_CHOICE"
    /\ editing' = [editing EXCEPT ![user] =
                     CASE choice = "edit_bio" -> "bio"
                       [] choice = "edit_location" -> "location"
                       [] choice = "edit_interests" -> "interests"
                       [] OTHER -> @]
    /\ conv' = [conv EXCEPT ![user] = "EDIT_VALUE"]
    /\ last' = [Event("edit_choice", user, <<>>, "private") EXCEPT
                  !.route = choice,
                  !.reply = IF choice \in {"edit_bio", "edit_location", "edit_interests"}
                            THEN <<"enter_value">> ELSE <<>>]
    /\ prev' = Summary(last)
    /\ UNCHANGED <<users, feedbacks, reminders, broadcasts, jobs, clock, accepted,
                   inflight, main>>

\* The button "Back to Profile" (pattern "^back_to_profile$"): profile().
BackToProfile(user) ==
    /\ conv[user] = "EDIT_CHOICE"
    /\ users' = Profile(users, user, clock)
    /\ conv' = [conv EXCEPT ![user] = "PROFILE"]
    /\ last' = [Event("back_to_profile", user, <<>>, "private") EXCEPT
                  !.reply = <<"profile">>]
    /\ prev' = Summary(last)
    /\ UNCHANGED <<feedbacks, reminders, broadcasts, jobs, clock, editing, accepted,
                   inflight, main>>

\* save_profile_edit without the stamp.
NoStamp(data, now) == data

\* user_data['profile']['last_activity'] = datetime.now().isoformat()
StampActivity(data, now) == [data EXCEPT !.profile.last_activity = now]

\* A text that is no command, in EDIT_VALUE.
SaveProfileEdit(user, text) ==
    /\ conv[user] = "EDIT_VALUE"
    /\ text # <<>>
    /\ \E g \in {GetUserData(users, user, clock)} :
       \E r \in {EditResult(g.data, editing[user], Strip(text))} :
       \E ev \in {[Event("save_profile_edit", user, text, "private") EXCEPT
                     !.route = editing[user], !.ok = r.ok]} :
          IF ~r.ok
          THEN /\ users' = g.file
               /\ conv' = [conv EXCEPT ![user] = "EDIT_VALUE"]
               /\ last' = [ev EXCEPT !.reply = <<r.reply>>]
          ELSE /\ users' = Profile(SaveUserData(g.file, user,
                                     StampActivity(r.data, clock)),
                                   user, clock)
               /\ conv' = [conv EXCEPT ![user] = "PROFILE"]
               /\ last' = [ev EXCEPT !.reply = IF r.reply = "" THEN <<"profile">>
                                               ELSE <<r.reply, "profile">>]
    /\ prev' = Summary(last)
    /\ UNCHANGED <<feedbacks, reminders, broadcasts, jobs, clock, editing, accepted,
                   inflight, main>>

\* /cancel that shows the profile and leaves the conversation where it was.
CancelStays(user) ==
    /\ conv[user] # "END"
    /\ users' = Profile(users, user, clock)
    /\ conv' = conv
    /\ last' = [Event("cancel", user, <<>>, "private") EXCEPT
                  !.route = conv[user],
                  !.reply = <<"cancelled", "profile">>]
    /\ prev' = Summary(last)
    /\ UNCHANGED <<feedbacks, reminders, broadcasts, jobs, clock, editing, accepted,
                   inflight, main>>

\* /cancel, the conversation's fallback in each of its states.  The event
\* keeps the state the command came in.
CancelProfileEdit(user) ==
    /\ conv[user] # "END"
    /\ users' = Profile(users, user, clock)
    /\ conv' = [conv EXCEPT ![user] = "PROFILE"]
    /\ last' = [Event("cancel", user, <<>>, "private") EXCEPT
                  !.route = conv[user],
                  !.reply = <<"cancelled", "profile">>]
    /\ prev' = Summary(last)
    /\ UNCHANGED <<feedbacks, reminders, broadcasts, jobs, clock, editing, accepted,
                   inflight, main>>

(***************************************************************************)
(* save_profile_edit with its suspension point.  The handler reads the     *)
(* record, changes its copy and awaits reply_text; when it resumes it      *)
(* stamps the copy, stores it and shows the profile.  Between the two      *)
(* steps the handlers of other updates run.  A value that is refused ends  *)
(* the handler at the await, with nothing left to store.                   *)
(***************************************************************************)
SaveProfileEditAwait(user, text) ==
    /\ conv[user] = "EDIT_VALUE"
    /\ inflight[user] = <<>>
    /\ text # <<>>
    /\ \E g \in {GetUserData(users, user, clock)} :
       \E r \in {EditResult(g.data, editing[user], Strip(text))} :
          /\ users' = g.file
          /\ inflight' = [inflight EXCEPT ![user] = IF r.ok THEN <<r.data>> ELSE <<>>]
          /\ last' = [Event("save_profile_edit_await", user, text, "private") EXCEPT
                        !.route = editing[user], !.ok = r.ok,
                        !.reply = IF r.reply = "" THEN <<>> ELSE <<r.reply>>]
    /\ prev' = Summary(last)
    /\ UNCHANGED <<feedbacks, reminders, broadcasts, jobs, clock, conv, editing,
                   accepted, main>>

SaveProfileEditResume(user) ==
    /\ inflight[user] # <<>>
    /\ users' = Profile(SaveUserData(users, user,
                           StampActivity(inflight[user][1], clock)),
                        user, clock)
    /\ inflight' = [inflight EXCEPT ![user] = <<>>]
    /\ conv' = [conv EXCEPT ![user] = "PROFILE"]
    /\ last' = [Event("save_profile_edit_resume", user, <<>>, "private") EXCEPT
                  !.route = editing[user], !.ok = TRUE,
                  !.reply = <<"profile">>]
    /\ prev' = Summary(last)
    /\ UNCHANGED <<feedbacks, reminders, broadcasts, jobs, clock, editing, accepted,
                   main>>

(***************************************************************************)
(* main(): the token, the application and its handlers, the daily job,     *)
(* run_polling.                                                            *)
(***************************************************************************)
\* The name datetime is bound by "from datetime import datetime, timedelta":
\* it is the class, not the module.
DatetimeName == "datetime.datetime"

\* datetime.time(hour=0, minute=0): with the module it is the time of day;
\* with the class it is the method time of no instance, which raises.
TimeOfDayRaises == DatetimeName = "datetime.datetime"

\* if not TOKEN: print the error and return; else build the application.
MainStart ==
    /\ main.pc = "start"
    /\ main' = IF ~main.token
               THEN [main EXCEPT !.pc = "returned", !.printed = <<"set_token">>]
               ELSE [main EXCEPT !.pc = "built"]
    /\ UNCHANGED <<users, feedbacks, reminders, broadcasts, jobs, clock, conv,
                   editing, last, prev, accepted, inflight>>

\* application.add_handler(...), one call after the other.
MainAddHandler ==
    /\ main.pc = "built"
    /\ Len(main.handlers) < Len(Registered)
    /\ main' = [main EXCEPT !.handlers = Append(@, Registered[Len(@) + 1])]
    /\ UNCHANGED <<users, feedbacks, reminders, broadcasts, jobs, clock, conv,
                   editing, last, prev, accepted, inflight>>

\* application.add_error_handler(error_handler)
MainAddErrorHandler ==
    /\ main.pc = "built"
    /\ main.handlers = Registered
    /\ main' = [main EXCEPT !.pc = "registered",
                            !.error_handlers = <<"error_handler">>]
    /\ UNCHANGED <<users, feedbacks, reminders, broadcasts, jobs, clock, conv,
                   editing, last, prev, accepted, inflight>>

\* print, job_queue = application.job_queue, job_queue.run_daily(...,
\* time=datetime.time(hour=0, minute=0)), application.run_polling().  The
\* attribute run_daily is looked up before the argument is computed; an
\* exception ends main.
MainRun ==
    /\ main.pc = "registered"
    /\ main' = IF ~main.job_queue
               THEN [main EXCEPT !.pc = "AttributeError", !.printed = <<"running">>]
               ELSE IF TimeOfDayRaises
               THEN [main EXCEPT !.pc = "TypeError", !.printed = <<"running">>]
               ELSE [main EXCEPT !.pc = "polling", !.printed = <<"running">>,
                                 !.daily = <<"send_daily_stats">>]
    /\ UNCHANGED <<users, feedbacks, reminders, broadcasts, jobs, clock, conv,
                   editing, last, prev, accepted, inflight>>

(***************************************************************************)
(* parse_time called by itself with a text, at the time of the clock.      *)
(***************************************************************************)
ParseTimeCall(time_str) ==
    /\ \E raises \in {ParseTimeRaises(time_str)} :
          last' = [Event("parse_time", 0, time_str, "") EXCEPT
                     !.ok = ~raises,
                     !.ret = IF raises THEN <<>> ELSE <<ParseTime(time_str, clock)>>,
                     !.reply = IF raises THEN <<"OverflowError">> ELSE <<>>]
    /\ prev' = Summary(last)
    /\ UNCHANGED <<users, feedbacks, reminders, broadcasts, jobs, clock, conv,
                   editing, accepted, inflight, main>>

(***************************************************************************)
(* The inputs.                                                             *)
(***************************************************************************)
Hello == <<Wd("hello", 5)>>

MentionText == <<Wd("@bot", 4), Sp(1), Wd("hi", 2)>>

In30CallMom == <<Wd("in", 2), Sp(1), Wd("30", 2), Sp(1), Wd("minutes", 7), Sp(1),
                 Wd("Call", 4), Sp(1), Wd("mom", 3)>>

MessageTexts == {Hello, MentionText, In30CallMom}

\* A text that starts with a slash and is no command ("/ hi").
SlashText == <<Wd("/", 1), Sp(1), Wd("hi", 2)>>

RouteTexts == {Hello, MentionText, SlashText}

ChatTypes == {"private", "group"}

AiOutcomes == {"ok", "provider_error"}

\* The same, and the answer the platform refuses to send.
AiResults == {"ok", "provider_error", "send_error"}

\* Texts sent as the new value of a profile field.
ItemTags == <<"i1", "i2", "i3", "i4", "i5", "i6", "i7", "i8", "i9", "i10", "i11", "i12">>

\* k interests of n characters each, separated by a comma and a space.
RECURSIVE InterestsText(_, _)
InterestsText(k, n) ==
    IF k = 1 THEN <<Wd(ItemTags[1], n)>>
    ELSE InterestsText(k - 1, n) \o <<Comma, Sp(1), Wd(ItemTags[k], n)>>

\* "x,, , y " : two interests among empty pieces.
MessyInterests == <<Wd("x", 1), [t |-> ",", n |-> 2], Sp(1), Comma, Sp(1),
                    Wd("y", 1), Sp(1)>>

ProfileTexts ==
    {<<Wd("a", MaxBio)>>,
     <<Wd("a", MaxBio + 1)>>,
     <<Sp(1), Wd("a", MaxBio), Sp(1)>>,
     <<Wd("c", MaxLocation)>>,
     <<Wd("c", MaxLocation + 1)>>,
     InterestsText(MaxInterests, MaxInterestLen),
     InterestsText(MaxInterests + 1, 1),
     <<Wd("i1", MaxInterestLen + 1)>>,
     MessyInterests}

EditChoices == {"edit_bio", "edit_location", "edit_interests", "edit_profile"}

(***************************************************************************)
(* The rate limiter: plain-text messages of an allow-listed administrator  *)
(* and of a regular user, as time passes.                                  *)
(***************************************************************************)
Senders == {1, 3}

MsgUsers == {3}

NextRate ==
    \/ Tick
    \/ \E user \in Senders, chat \in ChatTypes : HandleMessage(user, Hello, chat, "ok")

SpecRate == Init /\ [][NextRate]_vars

(***************************************************************************)
(* The dispatcher: plain-text messages, /chat, /endchat and /feedback.     *)
(***************************************************************************)
NextMsg ==
    \/ Tick
    \/ \E user \in MsgUsers, text \in MessageTexts, chat \in ChatTypes, ai \in AiOutcomes :
          HandleMessage(user, text, chat, ai)
    \/ \E user \in MsgUsers : ChatMode(user)
    \/ \E user \in MsgUsers : EndChat(user)
    \/ \E user \in MsgUsers : FeedbackCommand(user)

SpecMsg == Init /\ [][NextMsg]_vars

(***************************************************************************)
(* The profile conversation of one user.  No handler of the conversation   *)
(* reads the time except to stamp last_activity, so the clock stands still.*)
(***************************************************************************)
NextProfile ==
    \/ ProfileCommand(3)
    \/ EditProfile(3)
    \/ \E choice \in EditChoices : HandleEditChoice(3, choice)
    \/ BackToProfile(3)
    \/ \E text \in ProfileTexts : SaveProfileEdit(3, text)
    \/ CancelProfileEdit(3)

SpecProfile == Init /\ [][NextProfile]_vars

(***************************************************************************)
(* Reminders of one user: /remindme, the host's timer and the delivery.    *)
(***************************************************************************)
RemindTexts == {In30CallMom, <<>>}

NextRemind ==
    \/ Tick
    \/ \E text \in RemindTexts : RemindMe(3, text, "private")
    \/ WaitForJob
    \/ \E i \in 1..MaxLog : SendReminder(i)

SpecRemind == Init /\ [][NextRemind]_vars

\* Reminders with a plain text and with an underscore in the text.  The
\* host's scheduler runs every job that is due: the timer and each run of a
\* job are taken when they stay possible.
XCallMom == <<Wd("x", 1), Sp(1), Wd("call_mom", 8)>>

LiveTexts == {In30CallMom, XCallMom}

NextRemindLive ==
    \/ Tick
    \/ \E text \in LiveTexts : RemindMe(3, text, "private")
    \/ WaitForJob
    \/ \E i \in 1..MaxLog : SendReminder(i)

SpecRemindLive ==
    /\ Init /\ [][NextRemindLive]_vars
    /\ WF_vars(WaitForJob)
    /\ \A i \in 1..MaxLog : WF_vars(SendReminder(i))

(***************************************************************************)
(* The user store: records are created by the first command of a user and  *)
(* read back by the later ones, as time passes.                            *)
(***************************************************************************)
NextStore ==
    \/ Tick
    \/ \E user \in UserIds : LanguageCommand(user)

SpecStore == Init /\ [][NextStore]_vars

(***************************************************************************)
(* Broadcasts: users come to the store by their first command, and an      *)
(* allow-listed administrator or a regular user asks for a broadcast that  *)
(* the platform refuses to deliver to some of the recipients.  The         *)
(* broadcast reads the time only to stamp its record, so the clock stands  *)
(* still.                                                                  *)
(***************************************************************************)
BroadcastCallers == {1, 3}

BroadcastTexts == {Hello, <<>>}

NextBroadcast ==
    \/ \E user \in UserIds : LanguageCommand(user)
    \/ \E user \in BroadcastCallers, text \in BroadcastTexts, fails \in SUBSET UserIds :
          BroadcastMessage(user, text, fails)

SpecBroadcast == Init /\ [][NextBroadcast]_vars

(***************************************************************************)
(* Moderators and /broadcast: every user reads /help and asks for a        *)
(* broadcast, and the allow-listed administrator promotes.  The clock      *)
(* stands still.                                                           *)
(***************************************************************************)
NextModerators ==
    \/ \E user \in UserIds : HelpCommand(user)
    \/ \E user \in UserIds, text \in BroadcastTexts :
          BroadcastMessage(user, text, {})
    \/ \E target \in UserIds, role_arg \in {"moderator", "admin"} :
          PromoteUser(1, target, role_arg)

SpecModerators == Init /\ [][NextModerators]_vars

(***************************************************************************)
(* Handlers that interleave at their suspension points: users 2 and 3     *)
(* edit their bio, each edit suspended at its await, while the            *)
(* allow-listed administrator promotes and demotes them and every user    *)
(* comes to the store by /language.  A user sends the next update when    *)
(* the handler of the last one has ended.  The clock stands still.        *)
(***************************************************************************)
Editors == {2, 3}

Idle(user) == inflight[user] = <<>>

NextInterleave ==
    \/ \E user \in UserIds : Idle(user) /\ LanguageCommand(user)
    \/ \E user \in Editors : Idle(user) /\ ProfileCommand(user)
    \/ \E user \in Editors : Idle(user) /\ EditProfile(user)
    \/ \E user \in Editors : Idle(user) /\ HandleEditChoice(user, "edit_bio")
    \/ \E user \in Editors : SaveProfileEditAwait(user, Hello)
    \/ \E user \in Editors : SaveProfileEditResume(user)
    \/ \E target \in Editors, role_arg \in {"moderator", "admin"} :
          PromoteUser(1, target, role_arg)
    \/ \E target \in Editors : DemoteUser(1, target)

SpecInterleave == Init /\ [][NextInterleave]_vars

(***************************************************************************)
(* The admin-only commands from every caller: the allow-listed             *)
(* administrator promotes and demotes the regular user, and every user     *)
(* tries each of the commands.  The clock stands still.                    *)
(***************************************************************************)
NextAdminOnly ==
    \/ \E user \in UserIds : Owner(user)
    \/ \E user \in UserIds : Status(user)
    \/ \E user \in UserIds : ListUsers(user)
    \/ \E user \in UserIds : BroadcastMessage(user, Hello, {})
    \/ \E user \in UserIds, role_arg \in {"moderator", "admin"} :
          PromoteUser(user, 3, role_arg)
    \/ \E user \in UserIds : DemoteUser(user, 3)

SpecAdminOnly == Init /\ [][NextAdminOnly]_vars

(***************************************************************************)
(* The start of the program: main() runs its statements one after the      *)
(* other, with the token set or not and the job queue installed or not,    *)
(* while time passes.  main runs on until it returns or raises.            *)
(***************************************************************************)
InitMain ==
    /\ users = <<>>
    /\ feedbacks = <<>>
    /\ reminders = <<>>
    /\ broadcasts = <<>>
    /\ jobs = <<>>
    /\ clock = 0
    /\ conv = [u \in UserIds |-> "END"]
    /\ editing = [u \in UserIds |-> "None"]
    /\ last = NoEvent
    /\ prev = NoPrev
    /\ accepted = [u \in UserIds |-> 0]
    /\ inflight = [u \in UserIds |-> <<>>]
    /\ main \in {MainAt("start", token, job_queue) :
                    token \in BOOLEAN, job_queue \in BOOLEAN}

NextMain ==
    \/ Tick
    \/ MainStart
    \/ MainAddHandler
    \/ MainAddErrorHandler
    \/ MainRun

SpecMain ==
    /\ InitMain /\ [][NextMain]_vars
    /\ WF_vars(MainStart)
    /\ WF_vars(MainAddHandler)
    /\ WF_vars(MainAddErrorHandler)
    /\ WF_vars(MainRun)

(***************************************************************************)
(* Feedback on a feedback store that holds a mapping or does not: the      *)
(* regular user asks to give feedback and writes, while time passes.       *)
(***************************************************************************)
FeedbackStores == {<<>>, NotAMapping}

FeedbackUsers == {3}

InitFeedback ==
    /\ users = <<>>
    /\ feedbacks \in FeedbackStores
    /\ reminders = <<>>
    /\ broadcasts = <<>>
    /\ jobs = <<>>
    /\ clock = 0
    /\ conv = [u \in UserIds |-> "END"]
    /\ editing = [u \in UserIds |-> "None"]
    /\ last = NoEvent
    /\ prev = NoPrev
    /\ accepted = [u \in UserIds |-> 0]
    /\ inflight = [u \in UserIds |-> <<>>]
    /\ main = Polling

NextFeedback ==
    \/ Tick
    \/ \E user \in FeedbackUsers : FeedbackCommand(user)
    \/ \E user \in FeedbackUsers : HandleMessage(user, Hello, "private", "ok")

SpecFeedback == InitFeedback /\ [][NextFeedback]_vars

(***************************************************************************)
(* The buttons of the /help message: the regular user reads /help,         *)
(* presses "Start Chat" and "Feedback", ends the chat mode and writes,     *)
(* while time passes.                                                      *)
(***************************************************************************)
NextButtons ==
    \/ Tick
    \/ HelpCommand(3)
    \/ StartChatButton(3)
    \/ GiveFeedbackButton(3)
    \/ EndChat(3)
    \/ HandleMessage(3, Hello, "private", "ok")

SpecButtons == Init /\ [][NextButtons]_vars

(***************************************************************************)
(* Roles: users come to the store by their first command, and an           *)
(* allow-listed administrator or a regular user promotes and demotes.  No  *)
(* role command reads the time except to stamp a record it creates, so the *)
(* clock stands still.                                                     *)
(***************************************************************************)
RoleCallers == {1, 3}

RoleArgs == {"", "moderator", "admin", "owner"}

NextRoles ==
    \/ \E user \in UserIds : LanguageCommand(user)
    \/ \E user \in RoleCallers, target \in UserIds, role_arg \in RoleArgs :
          PromoteUser(user, target, role_arg)
    \/ \E user \in RoleCallers, target \in UserIds : DemoteUser(user, target)

SpecRoles == Init /\ [][NextRoles]_vars

(***************************************************************************)
(* The profile conversation of one user as time passes, with one text for  *)
(* each field and one text that is refused.                                *)
(***************************************************************************)
TimedProfileTexts ==
    {<<Sp(1), Wd("a", MaxBio), Sp(1)>>,
     <<Wd("c", MaxLocation)>>,
     MessyInterests,
     InterestsText(MaxInterests + 1, 1)}

FieldChoices == {"edit_bio", "edit_location", "edit_interests"}

NextProfileTime ==
    \/ Tick
    \/ ProfileCommand(3)
    \/ EditProfile(3)
    \/ \E choice \in FieldChoices : HandleEditChoice(3, choice)
    \/ \E text \in TimedProfileTexts : SaveProfileEdit(3, text)

SpecProfileTime == Init /\ [][NextProfileTime]_vars

(***************************************************************************)
(* The routes of the dispatcher: plain-text messages of one user, in the   *)
(* private chat and in a group, with and without /chat and /feedback.      *)
(***************************************************************************)
NextRoute ==
    \/ Tick
    \/ \E text \in RouteTexts, chat \in ChatTypes, ai \in AiOutcomes :
          HandleMessage(3, text, chat, ai)
    \/ ChatMode(3)
    \/ EndChat(3)
    \/ FeedbackCommand(3)

SpecRoute == Init /\ [][NextRoute]_vars

(***************************************************************************)
(* The commands next to plain text: one user who writes and who sends the  *)
(* commands while the limiter's count moves, and an administrator whose    *)
(* role commands rewrite that user's record.                               *)
(***************************************************************************)
CommandTexts == {Hello}

NextCommands ==
    \/ \E text \in CommandTexts : HandleMessage(3, text, "private", "ok")
    \/ ChatMode(3)
    \/ EndChat(3)
    \/ FeedbackCommand(3)
    \/ LanguageCommand(3)
    \/ RemindMe(3, <<>>, "private")
    \/ ProfileCommand(3)
    \/ CancelProfileEdit(3)
    \/ \E user \in RoleCallers : PromoteUser(user, 3, "")
    \/ \E user \in RoleCallers : DemoteUser(user, 3)
    \/ BroadcastMessage(3, Hello, {})

SpecCommands == Init /\ [][NextCommands]_vars

(***************************************************************************)
(* The limiter and the roles: an allow-listed administrator, an            *)
(* allow-listed moderator and a regular user write, and the administrator  *)
(* changes the stored role of the regular user and demotes themself.       *)
(***************************************************************************)
LimitSenders == {1, 2, 3}

GrantedRoles == {"moderator", "admin"}

DemoteTargets == {1, 3}

NextLimitRoles ==
    \/ \E user \in LimitSenders : HandleMessage(user, Hello, "private", "ok")
    \/ \E role_arg \in GrantedRoles : PromoteUser(1, 3, role_arg)
    \/ \E target \in DemoteTargets : DemoteUser(1, target)

SpecLimitRoles == Init /\ [][NextLimitRoles]_vars

(***************************************************************************)
(* parse_time as a function of the text and of the time of the call.       *)
(***************************************************************************)
\* The number of characters of a word of the texts below.
Chars(w) ==
    CASE w \in {"0", "5"} -> 1
      [] w \in {"in", "at", "In", "00", "09", "14", "30"} -> 2
      [] w = "min" -> 3
      [] w \in {"days", "five"} -> 4
      [] w \in {"hours", "weeks"} -> 5
      [] w \in {"minutes", "Minutes"} -> 7
      [] w = "weekdays" -> 8
      [] w = "1000000000" -> 10
      [] OTHER -> 1

W(w) == Wd(w, Chars(w))

Amounts == {"0", "5", "30", "1000000000"}

UnitWords == {"minutes", "Minutes", "hours", "days", "weeks", "weekdays", "min"}

InTexts == {<<W("in"), Sp(1), W(n), Sp(1), W(u)>> : n \in Amounts, u \in UnitWords}

HourWords == {"0", "09", "14"}

MinuteWords == {"00", "30"}

AtTexts == {<<W("at"), Sp(1), W(h), Colon, W(m)>> : h \in HourWords, m \in MinuteWords}

OtherTexts ==
    {<<>>, Hello, <<W("in"), Sp(1), W("5")>>,
     <<W("in"), Sp(1), W("five"), Sp(1), W("minutes")>>,
     <<W("In"), Sp(1), W("5"), Sp(1), W("minutes")>>,
     <<W("at"), Sp(1), W("09")>>,
     <<W("in"), Sp(2), W("5"), Sp(1), W("minutes"), Sp(1), W("five")>>}

ParseTexts == InTexts \cup AtTexts \cup OtherTexts

\* Times of the call: the start of a day, 09:00 and the minutes around it,
\* 14:00, the last minute of the day, and 14:00 of the next day.
ParseNows == {0, 1, 539, 540, 541, 840, 1439, 2280}

InitParse ==
    /\ users = <<>>
    /\ feedbacks = <<>>
    /\ reminders = <<>>
    /\ broadcasts = <<>>
    /\ jobs = <<>>
    /\ clock \in ParseNows
    /\ conv = [u \in UserIds |-> "END"]
    /\ editing = [u \in UserIds |-> "None"]
    /\ last = NoEvent
    /\ prev = NoPrev
    /\ accepted = [u \in UserIds |-> 0]
    /\ inflight = [u \in UserIds |-> <<>>]
    /\ main = Polling

NextParse == \E time_str \in ParseTexts : ParseTimeCall(time_str)

SpecParse == InitParse /\ [][NextParse]_vars

(***************************************************************************)
(* /remindme with a time of the day, sent at several times of the day, the *)
(* host's timer and the delivery.                                          *)
(***************************************************************************)
NextRemindAt ==
    \/ \E text \in AtTexts : RemindMe(3, text, "private")
    \/ WaitForJob
    \/ \E i \in 1..MaxLog : SendReminder(i)

SpecRemindAt == InitParse /\ [][NextRemindAt]_vars

(***************************************************************************)
(* The decision of remind_me: /remindme as the program runs it, and the    *)
(* part after parse_time for computed times before, at and after now.      *)
(***************************************************************************)
Distances == {-1, 0, 1}

NextSchedule ==
    \/ Tick
    \/ \E text \in RemindTexts : RemindMe(3, text, "private")
    \/ \E distance \in Distances : ScheduleCall(3, distance)
    \/ WaitForJob
    \/ \E i \in 1..MaxLog : SendReminder(i)

SpecSchedule == Init /\ [][NextSchedule]_vars

(***************************************************************************)
(* The two capture flows: /feedback, /remindme and the plain-text messages *)
(* that follow them.                                                       *)
(***************************************************************************)
FlagTexts == {Hello, In30CallMom}

NextFlags ==
    \/ \E text \in RemindTexts : RemindMe(3, text, "private")
    \/ FeedbackCommand(3)
    \/ \E text \in FlagTexts, chat \in ChatTypes : HandleMessage(3, text, chat, "ok")

SpecFlags == Init /\ [][NextFlags]_vars

(***************************************************************************)
(* The commands that read the user's record, on a store that can be read   *)
(* and on one that cannot.                                                 *)
(***************************************************************************)
Stores == {<<>>, Corrupt}

InitStores ==
    /\ users \in Stores
    /\ feedbacks = <<>>
    /\ reminders = <<>>
    /\ broadcasts = <<>>
    /\ jobs = <<>>
    /\ clock = 0
    /\ conv = [u \in UserIds |-> "END"]
    /\ editing = [u \in UserIds |-> "None"]
    /\ last = NoEvent
    /\ prev = NoPrev
    /\ accepted = [u \in UserIds |-> 0]
    /\ inflight = [u \in UserIds |-> <<>>]
    /\ main = Polling

NextStores ==
    \/ Tick
    \/ ProfileCommand(3)
    \/ CancelProfileEdit(3)
    \/ MyInfo(3)
    \/ LanguageCommand(3)
    \/ ChatMode(3)
    \/ EndChat(3)
    \/ FeedbackCommand(3)

SpecStores == InitStores /\ [][NextStores]_vars

(***************************************************************************)
(* Chat mode: /chat, /endchat, the messages of the user with every outcome *)
(* of the exchange, /feedback, /help and the button "Start Chat".          *)
(***************************************************************************)
NextChat ==
    \/ Tick
    \/ \E ai \in AiResults : HandleMessage(3, Hello, "private", ai)
    \/ ChatMode(3)
    \/ EndChat(3)
    \/ FeedbackCommand(3)
    \/ HelpCommand(3)
    \/ StartChatButton(3)

SpecChat == Init /\ [][NextChat]_vars

(***************************************************************************)
(* C1.  Rate limiter: from a window reset on, a user with limit L gets     *)
(* exactly L messages accepted while no more than Window has passed since  *)
(* the reset: never more than L are accepted, and a message is rejected    *)
(* only when L were accepted; a message sent more than Window after the    *)
(* reset is accepted, is the first of a new window, and moves the reset    *)
(* point to its own time.                                                  *)
(***************************************************************************)
LimitFor(u) == IF IsAdminVal(users, u, clock) THEN LimitAdmin ELSE LimitDefault

RateLimiterExact ==
    \A u \in DOMAIN users :
        /\ accepted[u] <= LimitFor(u)
        /\ (last.op = "message" /\ last.user = u) =>
              IF last.time - last.prevReset <= Window
              THEN /\ ~last.ok => accepted[u] = LimitFor(u)
                   /\ users[u].rate_limit.last_reset = last.prevReset
              ELSE /\ last.ok
                   /\ accepted[u] = 1
                   /\ users[u].rate_limit.count = 1
                   /\ users[u].rate_limit.last_reset = last.time

\* The (L+1)-th message of a regular user within the window was rejected.
RateLimiterRejects ==
    /\ last.op = "message" /\ last.user = 3 /\ ~last.ok
    /\ accepted[3] = LimitDefault
    /\ last.time - last.prevReset <= Window

(***************************************************************************)
(* C5 as stated.  In EDIT_VALUE with the bio being edited, a text longer   *)
(* than 500 characters is rejected, the stored bio is unchanged and the    *)
(* conversation stays in EDIT_VALUE; a text of exactly 500 characters is   *)
(* accepted and stored.                                                    *)
(***************************************************************************)
BioStep == last'.op = "save_profile_edit" /\ clock' = clock /\ last'.route = "bio"

InterestsStep ==
    last'.op = "save_profile_edit" /\ clock' = clock /\ last'.route = "interests"

TenEntries == [i \in 1..MaxInterests |-> <<Wd(ItemTags[i], MaxInterestLen)>>]

InterestsLimit ==
    [][InterestsStep =>
         LET u == last'.user
             entries == InterestsOf(Strip(last'.text))
         IN  /\ Len(entries) = MaxInterests + 1 =>
                   /\ ~last'.ok
                   /\ users' = users
                   /\ conv'[u] = "EDIT_VALUE"
             /\ (Len(entries) = MaxInterests
                   /\ \A i \in 1..Len(entries) : StrLen(entries[i]) <= MaxInterestLen) =>
                   /\ last'.ok
                   /\ users'[u].profile.interests = entries
                   /\ conv'[u] = "PROFILE"
             /\ last'.text = InterestsText(MaxInterests + 1, 1) => ~last'.ok
             /\ last'.text = InterestsText(MaxInterests, MaxInterestLen) =>
                   users'[u].profile.interests = TenEntries]_vars

\* Ten interests are stored, and a text with eleven was then rejected.
ElevenRejectedTenKept ==
    /\ last.op = "save_profile_edit" /\ last.route = "interests" /\ ~last.ok
    /\ last.text = InterestsText(MaxInterests + 1, 1)
    /\ users[3].profile.interests = TenEntries

(***************************************************************************)
(* C2.  When a user's waiting_for_feedback or setting_reminder flag is     *)
(* set, the next text message of that user in the private chat that the    *)
(* rate limiter accepts is consumed as the pending input and the flag is   *)
(* cleared, whatever the user's chat_mode.                                 *)
(***************************************************************************)
PendingStep(u) ==
    /\ last'.op = "message" /\ clock' = clock
    /\ last'.user = u /\ last'.chat = "private" /\ last'.ok
    /\ u \in DOMAIN users
    /\ users[u].waiting_for_feedback \/ users[u].setting_reminder

PendingInputConsumed ==
    [][\A u \in UserIds :
         PendingStep(u) =>
            IF users[u].waiting_for_feedback
            THEN last'.route = "feedback" /\ ~users'[u].waiting_for_feedback
            ELSE last'.route = "reminder" /\ ~users'[u].setting_reminder]_vars

(***************************************************************************)
(* C7.  A feedback submission clears the user's waiting_for_feedback flag  *)
(* and adds exactly one entry to the feedback store under a key that was   *)
(* not there before; every entry that was there is still there, unchanged. *)
(***************************************************************************)
FeedbackStep == last'.op = "message" /\ clock' = clock /\ last'.route = "feedback"

FeedbackAppendsOne ==
    [][FeedbackStep =>
         /\ ~users'[last'.user].waiting_for_feedback
         /\ \E k \in DOMAIN feedbacks' :
               /\ k \notin DOMAIN feedbacks
               /\ DOMAIN feedbacks' = DOMAIN feedbacks \cup {k}
         /\ \A k \in DOMAIN feedbacks : feedbacks'[k] = feedbacks[k]]_vars

(***************************************************************************)
(* C3.  A reminder requested with the text "in 30 minutes Call mom" at     *)
(* time T is scheduled for delivery at T + 30 minutes with the message     *)
(* "Call mom".                                                             *)
(***************************************************************************)
CallMom == <<Wd("Call", 4), Sp(1), Wd("mom", 3)>>

In30CallMomScheduled ==
    (last.op = "remindme" /\ last.text = In30CallMom) =>
        /\ jobs # <<>>
        /\ jobs[Len(jobs)].due = last.time + 30
        /\ jobs[Len(jobs)].message = CallMom

(***************************************************************************)
(* C4.  The first get_user_data for an id that is not in the store returns *)
(* a record with the documented default fields and writes it to the store, *)
(* once; a get_user_data for an id that is in the store returns the stored *)
(* record and writes nothing, so a second read returns the same record.    *)
(***************************************************************************)
DocumentedDefaults(id, t) ==
    [chat_mode |-> FALSE, first_seen |-> t, last_seen |-> t, message_count |-> 0,
     language |-> "en",
     role |-> IF id = 1 THEN "admin" ELSE IF id = 2 THEN "moderator" ELSE "user",
     profile |-> [full_name |-> "", username |-> "", bio |-> <<>>, location |-> <<>>,
                  interests |-> <<>>, preferred_topics |-> <<>>, last_activity |-> t],
     settings |-> [notifications |-> TRUE, daily_digest |-> FALSE,
                   privacy |-> [show_last_seen |-> TRUE, show_join_date |-> TRUE,
                                show_activity_stats |-> TRUE],
                   theme |-> "system"],
     stats |-> [commands_used |-> 0, messages_sent |-> 0, media_sent |-> 0,
                stickers_sent |-> 0, voice_messages |-> 0, active_days |-> 1,
                last_command |-> "None", last_command_time |-> "None",
                favorite_commands |-> <<>>],
     rate_limit |-> [count |-> 0, last_reset |-> t],
     achievements |-> [welcome |-> FALSE, early_adopter |-> FALSE, active_user |-> FALSE,
                       feedback_provider |-> FALSE, power_user |-> FALSE],
     metadata |-> [referral_code |-> "", referred_by |-> "", devices |-> <<>>,
                   timezone |-> "UTC"],
     waiting_for_feedback |-> FALSE, setting_reminder |-> FALSE]

ReadStep(u) == last'.op = "language" /\ clock' = clock /\ last'.user = u

LazyCreateOnce ==
    [][\A u \in UserIds :
         ReadStep(u) =>
            IF u \notin DOMAIN users
            THEN /\ last'.ret = <<DocumentedDefaults(u, clock)>>
                 /\ last'.writes = 1
                 /\ users' = (u :> DocumentedDefaults(u, clock)) @@ users
            ELSE /\ last'.ret = <<users[u]>>
                 /\ last'.writes = 0
                 /\ users' = users]_vars

\* A read of user 3's record later than the one that created it: it wrote
\* nothing and returned the record as the first read had created it.
SecondReadSame ==
    /\ last.op = "language" /\ last.user = 3 /\ last.writes = 0
    /\ last.ret # <<>>
    /\ last.ret[1].first_seen < clock
    /\ last.ret[1] = DocumentedDefaults(3, last.ret[1].first_seen)

(***************************************************************************)
(* C8.  A broadcast to the N users in the store in which K sends fail      *)
(* attempts each of the N recipients once (a failed send does not stop the *)
(* loop), reports and records total = N, successful = N - K, failed = K,   *)
(* and appends exactly one record to the broadcast log.                    *)
(***************************************************************************)
BroadcastStep == last'.op = "broadcast" /\ clock' = clock /\ last'.ok

PromoteThenDemote ==
    (/\ prev.op = "promote" /\ prev.ok /\ prev.role = "moderator"
     /\ last.op = "demote" /\ last.target = prev.target
     /\ IsAdminVal(users, last.user, clock)) =>
        /\ last.ok
        /\ last.ret = <<"moderator">>
        /\ users[last.target].role = "user"

DemoteOfUserStep ==
    /\ last'.op = "demote" /\ clock' = clock
    /\ IsAdminVal(users', last'.user, clock)
    /\ last'.target \in DOMAIN users
    /\ users[last'.target].role = "user"

DemoteOfUserChangesNothing ==
    /\ []PromoteThenDemote
    /\ [][DemoteOfUserStep =>
            /\ last'.reply = <<"already_regular_user">>
            /\ users' = users]_vars

(***************************************************************************)
(* C9 as amended.  By an administrator, promote(id, moderator) followed by *)
(* demote(id) leaves id's stored role equal to user; demote(id) on an id   *)
(* whose stored role is already user reports that the user is already a    *)
(* regular user, changes no record that is in the store and writes no      *)
(* command-log line: the one write it can make is the creation of the      *)
(* caller's own record, when this is the caller's first command.           *)
(***************************************************************************)
DemoteOfUserKeepsRecords ==
    /\ []PromoteThenDemote
    /\ [][DemoteOfUserStep =>
            /\ last'.reply = <<"already_regular_user">>
            /\ ~last'.ok
            /\ last'.logged = ""
            /\ \A u \in DOMAIN users : users'[u] = users[u]
            /\ DOMAIN users' = DOMAIN users \cup {last'.user}
            /\ last'.user \notin DOMAIN users =>
                  users'[last'.user] = DefaultUser(last'.user, clock)]_vars

\* User 3, promoted to moderator and demoted by the administrator, is demoted
\* once more: the role is user and the second demotion reports so.
DemotedTwice ==
    /\ last.op = "demote" /\ last.user = 1 /\ last.target = 3
    /\ last.reply = <<"already_regular_user">>
    /\ prev.op = "demote" /\ prev.ok /\ prev.target = 3
    /\ users[3].role = "user"

(***************************************************************************)
(* C10.  is_admin holds of an allow-listed id in every state, also when    *)
(* /demote has set its stored role to user: its administrator commands are *)
(* never refused.  The stored role follows the allow-lists only when the   *)
(* record is created; afterwards only a successful /promote or /demote of  *)
(* that id changes it, and no read sets it back.                           *)
(***************************************************************************)
AllowListedIsAdmin ==
    /\ \A a \in ADMIN_IDS : IsAdminVal(users, a, clock)
    /\ (last.op \in {"promote", "demote"} /\ last.user \in ADMIN_IDS) =>
          last.reply # <<"admins_only">>

RoleStep(u) == last'.op \in {"promote", "demote"} /\ last'.ok /\ last'.target = u

RoleSetOnlyAtCreation ==
    \A u \in DOMAIN users' :
       IF u \in DOMAIN users
       THEN users'[u].role # users[u].role => RoleStep(u)
       ELSE users'[u].role # RoleAtCreation(u) => RoleStep(u)

AllowListOverridesStoredRole ==
    /\ []AllowListedIsAdmin
    /\ [][RoleSetOnlyAtCreation]_vars

\* The allow-listed administrator, demoted to user, has promoted user 3: the
\* command was not refused, and the read of the caller's record by is_admin
\* left its stored role at user.
DemotedAdminStillAdmin ==
    /\ 1 \in DOMAIN users /\ users[1].role = "user"
    /\ last.op = "promote" /\ last.user = 1 /\ last.target = 3 /\ last.ok

(***************************************************************************)
(* C11.  A /promote or /demote of a caller who is not an administrator     *)
(* (not on the allow-list, stored role not admin) changes the stored role  *)
(* of no user, whatever the target; the only record it can add is the      *)
(* caller's own, with the role records are created with.                   *)
(***************************************************************************)
RoleCommandStep == last'.op \in {"promote", "demote"} /\ clock' = clock

NotAdminCaller ==
    /\ last'.user \notin ADMIN_IDS
    /\ last'.user \in DOMAIN users => users[last'.user].role # "admin"

RoleCommandsAdminOnly ==
    [][(RoleCommandStep /\ NotAdminCaller) =>
          /\ last'.reply = <<"admins_only">>
          /\ \A u \in DOMAIN users : users'[u].role = users[u].role
          /\ \A u \in DOMAIN users' \ DOMAIN users :
                u = last'.user /\ users'[u].role = RoleAtCreation(u)]_vars

\* User 3, a regular user, asked to be promoted to admin and was refused.
RegularUserRefused ==
    /\ last.op = "promote" /\ last.user = 3 /\ last.target = 3
    /\ last.route = "admin"
    /\ last.reply = <<"admins_only">>
    /\ users[3].role = "user"

(***************************************************************************)
(* C12.  In every state and for every user id, is_admin implies            *)
(* is_moderator, and is_moderator holds exactly when the stored role is    *)
(* moderator or admin or the id is on the moderators' or the               *)
(* administrators' allow-list.                                             *)
(***************************************************************************)
StoredRoleIn(id, roles) == id \in DOMAIN users /\ users[id].role \in roles

RolesOrdered ==
    \A id \in UserIds :
       /\ IsAdminVal(users, id, clock) => IsModeratorVal(users, id, clock)
       /\ IsModeratorVal(users, id, clock) <=>
             \/ StoredRoleIn(id, {"moderator", "admin"})
             \/ id \in MODERATOR_IDS
             \/ id \in ADMIN_IDS
       /\ IsAdminVal(users, id, clock) <=>
             (StoredRoleIn(id, {"admin"}) \/ id \in ADMIN_IDS)

\* The allow-listed administrator and the allow-listed moderator are both
\* demoted to user, and user 3 is promoted to moderator: 1 is still an
\* administrator and a moderator, 2 a moderator, 3 a moderator and no more.
RolesApartFromLists ==
    /\ DOMAIN users = UserIds
    /\ users[1].role = "user" /\ users[2].role = "user"
    /\ users[3].role = "moderator"
    /\ IsAdminVal(users, 1, clock) /\ IsModeratorVal(users, 1, clock)
    /\ IsModeratorVal(users, 2, clock) /\ ~IsAdminVal(users, 2, clock)
    /\ IsModeratorVal(users, 3, clock) /\ ~IsAdminVal(users, 3, clock)

(***************************************************************************)
(* C13.  Whenever a user's profile conversation is in EDIT_VALUE, the      *)
(* editing field is one of bio, location, interests and is the field       *)
(* chosen in the EDIT_CHOICE step that led there; EDIT_CHOICE moves to     *)
(* EDIT_VALUE only on the choice of one of these three fields.             *)
(***************************************************************************)
EditableFields == {"bio", "location", "interests"}

ChoiceOf(field) ==
    CASE field = "bio" -> "edit_bio"
      [] field = "location" -> "edit_location"
      [] field = "interests" -> "edit_interests"
      [] OTHER -> ""

EditingIsChosen ==
    \A u \in UserIds :
       conv[u] = "EDIT_VALUE" =>
          /\ editing[u] \in EditableFields
          /\ (last.op = "edit_choice" /\ last.user = u) =>
                last.route = ChoiceOf(editing[u])

EditValueOnlyByChoice ==
    /\ []EditingIsChosen
    /\ [][\A u \in UserIds :
            (conv[u] = "EDIT_CHOICE" /\ conv'[u] = "EDIT_VALUE") =>
               /\ last'.op = "edit_choice"
               /\ last'.route \in {ChoiceOf(f) : f \in EditableFields}]_vars

(***************************************************************************)
(* C14.  /cancel in any of the states PROFILE, EDIT_CHOICE, EDIT_VALUE     *)
(* moves the conversation to PROFILE and leaves the stored bio, location   *)
(* and interests as they were before the edit was started: the cancel step *)
(* changes none of them, and no step that keeps an edit in progress (from  *)
(* EDIT_CHOICE or EDIT_VALUE to EDIT_CHOICE or EDIT_VALUE) changes them.   *)
(***************************************************************************)
EditStates == {"EDIT_CHOICE", "EDIT_VALUE"}

ProfileFields(file, u) ==
    <<file[u].profile.bio, file[u].profile.location, file[u].profile.interests>>

ValidSaveStep(u) ==
    /\ last'.op = "save_profile_edit" /\ last'.user = u /\ clock' = clock
    /\ last'.ok /\ last'.route \in EditableFields

NewValue(field, text) ==
    IF field = "interests" THEN InterestsOf(Strip(text)) ELSE Strip(text)

TrimmedEntry(x) ==
    /\ x # <<>>
    /\ StrLen(x) >= 1
    /\ ~IsSpace(x[1])
    /\ ~IsSpace(x[Len(x)])

ProfileWithinLimits ==
    \A u \in DOMAIN users :
       LET p == users[u].profile IN
       /\ StrLen(p.bio) <= MaxBio
       /\ StrLen(p.location) <= MaxLocation
       /\ Len(p.interests) <= MaxInterests
       /\ \A i \in 1..Len(p.interests) :
             /\ TrimmedEntry(p.interests[i])
             /\ StrLen(p.interests[i]) <= MaxInterestLen

\* A profile at all its limits: 500, 100, and 10 interests of 30.
ProfileAtLimits ==
    /\ 3 \in DOMAIN users
    /\ StrLen(users[3].profile.bio) = MaxBio
    /\ StrLen(users[3].profile.location) = MaxLocation
    /\ users[3].profile.interests = TenEntries

(***************************************************************************)
(* C17 as stated.  For every plain-text message the rate limiter accepts   *)
(* one route is taken, in this priority: chat_mode on, the AI provider;    *)
(* else in a group, the introduction if the bot is mentioned and nothing   *)
(* otherwise; else in the private chat with a pending flag, the pending    *)
(* flow; else in the private chat, the "use /chat" nudge.                  *)
(***************************************************************************)
AcceptedStep == last'.op = "message" /\ clock' = clock /\ last'.ok

\* What the sender's record said before the message.
Before(flag) == last'.user \in DOMAIN users /\ users[last'.user][flag]

AiReplies == {<<"ai_response">>, <<"ai_apology">>}

RouteTaken(slashToo) ==
    IF Before("chat_mode")
    THEN last'.ai_called /\ last'.reply \in AiReplies /\ feedbacks' = feedbacks
    ELSE /\ ~last'.ai_called
         /\ IF last'.chat = "group"
            THEN /\ last'.reply = IF \E i \in 1..Len(last'.text) : last'.text[i].t = "@bot"
                                  THEN <<"introduction">> ELSE <<>>
                 /\ feedbacks' = feedbacks
            ELSE IF Before("waiting_for_feedback")
            THEN /\ last'.reply = <<"thanks">>
                 /\ \E k \in DOMAIN feedbacks' :
                       /\ feedbacks'[k].user_id = last'.user
                       /\ feedbacks'[k].text = last'.text
                       /\ feedbacks'[k].timestamp = clock
                 /\ ~users'[last'.user].waiting_for_feedback
            ELSE /\ feedbacks' = feedbacks
                 /\ last'.reply = IF slashToo \/ last'.text[1].t # "/"
                                  THEN <<"use_chat">> ELSE <<>>

RoutePriority == [][AcceptedStep => RouteTaken(TRUE)]_vars

(***************************************************************************)
(* C17 as amended.  The same priority, with the last route taken only by a *)
(* text that does not start with "/": a private text that starts with "/"  *)
(* (and is no command), sent with chat_mode off and no pending flag, gets   *)
(* no reply, as a group message that does not mention the bot gets none.   *)
(***************************************************************************)
RoutePriorityNoSlash == [][AcceptedStep => RouteTaken(FALSE)]_vars

\* With chat_mode on and waiting_for_feedback set, a private text went to
\* the AI provider and the flag is still set.
AiBeforePending ==
    /\ last.op = "message" /\ last.user = 3 /\ last.ok /\ last.chat = "private"
    /\ last.ai_called
    /\ users[3].chat_mode /\ users[3].waiting_for_feedback

(***************************************************************************)
(* C18.  When the rate limiter rejects a plain-text message, the user's    *)
(* stored rate_limit.count and rate_limit.last_reset are unchanged and     *)
(* nothing further is processed: no line is added to the transcript, the   *)
(* AI provider is not called, no pending flag is consumed or cleared, and  *)
(* the one reply is the warning.                                           *)
(***************************************************************************)
RejectedStep == last'.op = "message" /\ clock' = clock /\ ~last'.ok

RejectionStopsProcessing ==
    [][RejectedStep =>
          LET u == last'.user IN
          /\ u \in DOMAIN users
          /\ users'[u].rate_limit = users[u].rate_limit
          /\ users'[u].waiting_for_feedback = users[u].waiting_for_feedback
          /\ users'[u].setting_reminder = users[u].setting_reminder
          /\ users'[u].chat_mode = users[u].chat_mode
          /\ last'.history = <<>>
          /\ ~last'.ai_called
          /\ last'.reply = <<"too_fast">>
          /\ feedbacks' = feedbacks
          /\ jobs' = jobs
          /\ reminders' = reminders]_vars

\* A private text of a user with chat_mode on and waiting_for_feedback set
\* was rejected: the flag is still set and the count is at the limit.
RejectedWithPendingFlag ==
    /\ last.op = "message" /\ last.user = 3 /\ ~last.ok /\ last.chat = "private"
    /\ last.reply = <<"too_fast">>
    /\ users[3].chat_mode /\ users[3].waiting_for_feedback
    /\ users[3].rate_limit.count = LimitDefault

(***************************************************************************)
(* C19.  For every inbound update of a user, command or plain text, the    *)
(* user's record is resolved or created, its last_seen is set to the time  *)
(* of the update and a message counter of a record that existed is         *)
(* counted up, and the record is stored.                                   *)
(***************************************************************************)
Counters(r) == r.message_count + r.stats.messages_sent + r.stats.commands_used

\* A step of a handler: every action but the passing of time is one.
UpdateStep == clock' = clock /\ last'.op # "none"

EveryUpdateCounted ==
    [][UpdateStep =>
          LET u == last'.user IN
          /\ u \in DOMAIN users'
          /\ users'[u].last_seen = clock
          /\ u \in DOMAIN users => Counters(users'[u]) > Counters(users[u])]_vars

(***************************************************************************)
(* C20.  The rate limiter is applied to plain text only: a command leaves  *)
(* the rate_limit of every stored user as it was (a record the command     *)
(* creates starts with the count 0), and it is never answered with the     *)
(* limiter's refusal, whatever the caller's count is.                      *)
(***************************************************************************)
CommandStep == clock' = clock /\ last'.op \notin {"none", "message"}

CommandsNotLimited ==
    [][CommandStep =>
          /\ \A u \in DOMAIN users :
                 u \in DOMAIN users' /\ users'[u].rate_limit = users[u].rate_limit
          /\ \A u \in DOMAIN users' \ DOMAIN users :
                 users'[u].rate_limit.count = 0
          /\ last'.reply # <<"too_fast">>
          /\ last'.op = "chat" => users'[last'.user].chat_mode
          /\ last'.op = "feedback" => users'[last'.user].waiting_for_feedback
          /\ last'.op = "endchat" => ~users'[last'.user].chat_mode]_vars

\* /chat is handled for a caller whose count is at the limit of the window.
CommandAtTheLimit ==
    /\ last.op = "chat" /\ last.user = 3 /\ last.reply = <<"chat_on">>
    /\ users[3].chat_mode
    /\ users[3].rate_limit.count = LimitDefault
    /\ clock - users[3].rate_limit.last_reset <= Window
    /\ accepted[3] = LimitDefault

(***************************************************************************)
(* C21.  check_rate_limit applies the admin limit exactly to the callers   *)
(* for whom is_admin holds, by the stored role admin or by the admin       *)
(* allow-list, and the default limit to everyone else, the moderators      *)
(* included: a message is accepted exactly when the count of the caller's  *)
(* window is below that limit.                                             *)
(***************************************************************************)
\* The role the record of the caller has when the limiter reads it.
RoleRead(u) == IF u \in DOMAIN users THEN users[u].role ELSE RoleAtCreation(u)

\* The count the limiter compares: zero for a new record and after the
\* window has passed.
CountRead(u) ==
    IF u \notin DOMAIN users THEN 0
    ELSE IF clock - users[u].rate_limit.last_reset > Window THEN 0
    ELSE users[u].rate_limit.count

LimitByRole ==
    [][(last'.op = "message" /\ clock' = clock) =>
          LET u == last'.user
              limit == IF RoleRead(u) = "admin" \/ u \in ADMIN_IDS
                       THEN LimitAdmin ELSE LimitDefault
          IN  /\ last'.ok <=> CountRead(u) < limit
              /\ last'.ok => users'[u].rate_limit.count = CountRead(u) + 1]_vars

\* A user promoted to admin has the admin limit, and the allow-listed
\* moderator is refused at the default limit.
PromotedAdminAtAdminLimit ==
    /\ last.op = "message" /\ last.user = 3 /\ last.ok
    /\ 3 \notin ADMIN_IDS /\ users[3].role = "admin"
    /\ users[3].rate_limit.count = LimitAdmin
    /\ 2 \in DOMAIN users /\ users[2].role = "moderator"
    /\ users[2].rate_limit.count = LimitDefault
    /\ clock - users[2].rate_limit.last_reset <= Window
    /\ accepted[2] = LimitDefault

(***************************************************************************)
(* C22.  parse_time called at the time now returns now + N units for       *)
(* every text "in <N> <unit>" whose unit contains minute, hour, day or     *)
(* week, in any case of the letters, and now + 1 hour for every text it    *)
(* cannot parse.                                                           *)
(***************************************************************************)
\* The minutes of one unit, for the unit names a word contains.
UnitMinutes(name) ==
    CASE name = "minute" -> 1
      [] name = "hour" -> MinutesPerHour
      [] name = "day" -> MinutesPerDay
      [] name = "week" -> DaysPerWeek * MinutesPerDay

\* "in <N> <unit>", and what follows the unit is not read.
InForm(s) ==
    /\ Len(s) >= 5
    /\ s[1] = W("in") /\ IsSpace(s[2]) /\ s[3].t \in NumTokens
    /\ IsSpace(s[4]) /\ UnitsIn(<<s[5]>>) # {}
    /\ Len(s) > 5 => IsSpace(s[6])

\* "at HH:MM" with an hour and a minute of the clock.
AtForm(s) ==
    /\ Len(s) = 5
    /\ s[1] = W("at") /\ IsSpace(s[2]) /\ s[3].t \in NumTokens
    /\ s[4] = Colon /\ s[5].t \in NumTokens
    /\ NumVal(s[3].t) \in 0..23 /\ NumVal(s[5].t) \in 0..59

ParseTimeInAndDefault ==
    last.op = "parse_time" =>
        LET s == last.text
            now == last.time
        IN  /\ InForm(s) =>
                  /\ last.ok
                  /\ \E name \in UnitsIn(<<s[5]>>) :
                        last.ret = <<now + NumVal(s[3].t) * UnitMinutes(name)>>
            /\ (~InForm(s) /\ ~AtForm(s)) =>
                  /\ last.ok
                  /\ last.ret = <<now + MinutesPerHour>>

(***************************************************************************)
(* C23.  A reminder requested with the text "at HH:MM" is scheduled for    *)
(* HH:MM of the current day when that time is not yet past, and for HH:MM  *)
(* of the next day when it is already past; requested as "at 09:00" at     *)
(* 14:00 it is scheduled for 09:00 of the next day.  (A request in the     *)
(* very minute HH:MM may go either way.)                                   *)
(***************************************************************************)
\* HH:MM of the day of the time now.
SameDay(now, s) ==
    (now \div MinutesPerDay) * MinutesPerDay
        + NumVal(s[3].t) * MinutesPerHour + NumVal(s[5].t)

AtTimeScheduled ==
    (last.op = "remindme" /\ AtForm(last.text)) =>
        LET today == SameDay(last.time, last.text) IN
        /\ jobs # <<>>
        /\ today > last.time => jobs[Len(jobs)].due = today
        /\ today < last.time => jobs[Len(jobs)].due = today + MinutesPerDay
        /\ today = last.time => jobs[Len(jobs)].due \in {today, today + MinutesPerDay}

(***************************************************************************)
(* C24.  When the computed reminder time is strictly after now, exactly    *)
(* one one-shot job is handed to the scheduler and exactly one Reminder    *)
(* record is appended, both for that time; when it is not after now, an    *)
(* error is reported and neither a job is scheduled nor a record appended. *)
(***************************************************************************)
\* A step that computed a reminder time, and the time it computed.
ComputesTime ==
    /\ clock' = clock
    /\ \/ last'.op = "schedule"
       \/ last'.op = "remindme" /\ Words(last'.text) # <<>>

ComputedTime ==
    IF last'.op = "schedule" THEN last'.ret[1]
    ELSE ParseTime(Words(last'.text)[1], clock)

FutureOrNothing ==
    [][ComputesTime =>
          IF ComputedTime > clock
          THEN /\ Len(jobs') = Len(jobs) + 1
               /\ SubSeq(jobs', 1, Len(jobs)) = jobs
               /\ jobs'[Len(jobs')].due = ComputedTime
               /\ Len(reminders') = Len(reminders) + 1
               /\ SubSeq(reminders', 1, Len(reminders)) = reminders
               /\ reminders'[Len(reminders')].time = ComputedTime
               /\ reminders'[Len(reminders')].user_id = last'.user
               /\ last'.reply = <<"will_remind">>
          ELSE /\ jobs' = jobs
               /\ reminders' = reminders
               /\ last'.reply = <<"not_future">>]_vars

\* A computed time equal to now is refused, with the reminder /remindme
\* scheduled before still in the queue and in the list.
RefusedAtNow ==
    /\ last.op = "schedule" /\ last.reply = <<"not_future">>
    /\ last.ret = <<last.time>>
    /\ Len(jobs) = 1 /\ Len(reminders) = 1
    /\ reminders[1].message # DefaultMessage
    /\ reminders[1].time = reminders[1].created_at + MinutesPerHour
    /\ jobs[1].due = reminders[1].time

(***************************************************************************)
(* C25.  Every reminder handed to the scheduler is eventually delivered,   *)
(* exactly once: the queue loses a job only by the delivery of that job,   *)
(* at or after its time, and every job in the queue is delivered in the    *)
(* end.  No operation cancels a scheduled reminder, and the list of        *)
(* Reminder records only grows by appends: no record is removed or         *)
(* altered.                                                                *)
(***************************************************************************)
\* jobs without its i-th element.
Without(q, i) == SubSeq(q, 1, i - 1) \o SubSeq(q, i + 1, Len(q))

\* The queue changes by one job handed over, or by the delivery of one job.
QueueStep ==
    \/ /\ Len(jobs') = Len(jobs) + 1
       /\ SubSeq(jobs', 1, Len(jobs)) = jobs
       /\ last'.op = "remindme"
    \/ /\ last'.op = "send_reminder"
       /\ \E i \in 1..Len(jobs) :
             /\ jobs' = Without(jobs, i)
             /\ jobs[i].due <= clock
             /\ last'.text = jobs[i].message
             /\ last'.target = jobs[i].chat_id

\* The list changes by one record appended.
AppendOnly ==
    /\ Len(reminders') = Len(reminders) + 1
    /\ SubSeq(reminders', 1, Len(reminders)) = reminders

\* The times a job of this specification can be due at.
DueTimes == {t + MinutesPerHour : t \in 0..MaxTime}

DeliveredOnceNeverWithdrawn ==
    /\ [][jobs' # jobs => QueueStep]_vars
    /\ [][(last'.op = "send_reminder" /\ last' # last) =>
             jobs' # jobs /\ last'.ok]_vars
    /\ [][reminders' # reminders => AppendOnly]_vars
    /\ \A d \in DueTimes :
          (\E i \in 1..Len(jobs) : jobs[i].due = d)
             ~> (last.op = "send_reminder" /\ last.ok /\ last.time = d)
    /\ (jobs # <<>>) ~> (jobs = <<>>)

(***************************************************************************)
(* C26.  The reminder command sets the user's setting_reminder flag and    *)
(* stores it, as the feedback command sets and stores                      *)
(* waiting_for_feedback, so that the next private plain-text message is    *)
(* taken by handle_reminder.                                               *)
(***************************************************************************)
\* The step of a handler for the user of the event.
StepOf(op) == last'.op = op /\ clock' = clock

ReminderCommandSetsFlag ==
    [][LET u == last'.user IN
       /\ StepOf("feedback") => users'[u].waiting_for_feedback
       /\ StepOf("remindme") => users'[u].setting_reminder
       /\ (StepOf("message") /\ last'.ok /\ last'.chat = "private"
             /\ last.op = "remindme" /\ last.user = u) =>
               last'.route = "reminder"]_vars

(***************************************************************************)
(* C27.  In every reachable state at most one of the flags                 *)
(* waiting_for_feedback and setting_reminder is set in a user's record.    *)
(***************************************************************************)
OneFlagAtMost ==
    \A u \in DOMAIN users :
        ~(users[u].waiting_for_feedback /\ users[u].setting_reminder)

\* /remindme was sent while the feedback flow was waiting for its text.
RemindWhileWaiting ==
    /\ last.op = "remindme" /\ last.user = 3 /\ last.reply = <<"will_remind">>
    /\ users[3].waiting_for_feedback
    /\ ~users[3].setting_reminder
    /\ Len(reminders) = 1

(***************************************************************************)
(* C28.  When the user store is missing or corrupt, get_user_data returns  *)
(* the hard-coded minimal default record without writing it, and every     *)
(* handler that reads a user record through it, /profile and /myinfo       *)
(* included, completes without raising.                                    *)
(***************************************************************************)
CorruptStoreHarmless ==
    [][(clock' = clock /\ last'.op # "none" /\ IsCorrupt(users)) =>
          /\ users' = users
          /\ last'.op = "language" =>
                last'.ret = <<MinimalUser(clock)>> /\ last'.writes = 0
          /\ last'.route # "KeyError"
          /\ last'.reply # <<"error_notice">>]_vars

(***************************************************************************)
(* C29.  In chat mode, every plain-text message accepted by the rate       *)
(* limiter gets exactly one reply, the AI result or the fixed apology on a *)
(* provider error, and the transcript gets the user's line followed by the *)
(* bot's line for that exchange.                                           *)
(***************************************************************************)
ChatModeStep ==
    /\ last'.op = "message" /\ clock' = clock /\ last'.ok
    /\ last'.user \in DOMAIN users /\ users[last'.user].chat_mode

Apologies == {<<"ai_apology">>, <<"chat_apology">>}

ChatExchangeLogged ==
    [][ChatModeStep =>
          /\ last'.ai_called
          /\ last'.reply \in {<<"ai_response">>} \cup Apologies
          /\ last'.history = <<"user", "bot">>]_vars

(***************************************************************************)
(* C30 as stated.  A user's chat_mode is true exactly when the latest of   *)
(* that user's /chat and /endchat commands was /chat, and false if neither *)
(* was issued: /chat leaves it true, /endchat leaves it false, a record is *)
(* created with it false and no other operation changes it; /chat and      *)
(* /endchat are each idempotent.                                           *)
(***************************************************************************)
\* chat_mode after the step, for the users in the store before it.
KeepsChatMode ==
    \A u \in DOMAIN users : users'[u].chat_mode = users[u].chat_mode

\* A step of one of the operations given sets the caller's chat_mode to the
\* value given and leaves the other users' alone; done again it changes
\* nothing in the store.
SetsChatMode(ops, value) ==
    last'.op \in ops =>
        /\ users'[last'.user].chat_mode = value
        /\ \A u \in DOMAIN users \ {last'.user} :
               users'[u].chat_mode = users[u].chat_mode
        /\ (last'.user \in DOMAIN users /\ users[last'.user].chat_mode = value) =>
               users' = users

ChatModeBy(on, off) ==
    (clock' = clock /\ last'.op # "none") =>
        /\ SetsChatMode(on, TRUE)
        /\ SetsChatMode(off, FALSE)
        /\ last'.op \notin on \cup off => KeepsChatMode
        /\ \A u \in DOMAIN users' \ DOMAIN users :
               u # last'.user \/ last'.op \notin on => ~users'[u].chat_mode

ModeratorAsks ==
    /\ last'.op = "broadcast"
    /\ Words(last'.text) # <<>>
    /\ IsModeratorVal(users, last'.user, clock)

ModeratorsCanBroadcast ==
    [][ModeratorAsks => /\ last'.ok
                        /\ last'.reply = <<"broadcast_sent">>
                        /\ Len(broadcasts') = Len(broadcasts) + 1]_vars

(***************************************************************************)
(* C32  With handlers interleaved at their suspension points, no handler   *)
(* stores a copy of a record that it read before another handler wrote     *)
(* that record: when a suspended profile edit resumes and stores, all of   *)
(* the user's record but the profile, the role with it, stays what the     *)
(* store held.                                                             *)
(***************************************************************************)
ResumeStep == last'.op = "save_profile_edit_resume" /\ last'.user \in DOMAIN users

IdsOf(e) == {e.user} \cup (IF e.op \in {"promote", "demote"} THEN {e.target} ELSE {})

OnlyOwnEntry ==
    [][/\ \A id \in DOMAIN users :
            id \notin IdsOf(last') => id \in DOMAIN users' /\ users'[id] = users[id]
       /\ DOMAIN users' \subseteq DOMAIN users \cup IdsOf(last')]_vars

\* User 2's suspended edit has resumed and stored, while user 3, promoted
\* in the meantime, has an edit in flight: 3's entry still holds the role.
StoredBesideInFlight ==
    /\ last.op = "save_profile_edit_resume"
    /\ last.user = 2
    /\ inflight[3] # <<>>
    /\ 3 \in DOMAIN users
    /\ users[3].role = "admin"
    /\ users[2].profile.bio = Hello

(***************************************************************************)
(* C34  In every reachable state each user's stored rate_limit.count is    *)
(* between 0 and the limit of the tier the user belongs to in that state,  *)
(* also after /promote or /demote changed the user's role.                 *)
(***************************************************************************)
TierLimit(file, u) == RateLimitOf(IsAdminVal(file, u, clock))

CountWithinTier ==
    \A u \in DOMAIN users :
       /\ users[u].rate_limit.count >= 0
       /\ users[u].rate_limit.count <= TierLimit(users, u)

\* As the code has it: the count is never above the admin limit, each
\* change of the count leaves it within the tier the user has at that
\* moment, and a user whose count is at or above the limit of the tier has
\* the next message of the window rejected.
StoredCount(file, u) == IF u \in DOMAIN file THEN file[u].rate_limit.count ELSE 0

CountWithinTierWhenCounted ==
    [][/\ \A u \in DOMAIN users' :
            /\ StoredCount(users', u) \in 0..LimitAdmin
            /\ StoredCount(users', u) # StoredCount(users, u) =>
                  StoredCount(users', u) <= TierLimit(users', u)
       /\ (last'.op = "message" /\ clock' = clock) =>
             (CountRead(last'.user) >= TierLimit(users', last'.user) => ~last'.ok)]_vars

\* The regular user, promoted to admin, has written past the default limit
\* and was demoted: the stored count is above the limit of the tier, and the
\* next message is rejected.
DemotedOverDefaultLimit ==
    /\ last.op = "message" /\ last.user = 3 /\ ~last.ok
    /\ users[3].role = "user"
    /\ users[3].rate_limit.count > LimitDefault

(***************************************************************************)
(* C35  /promote never lowers a user's stored role: after a successful     *)
(* /promote the stored role of the target is at least as high, in the      *)
(* order user < moderator < admin, as it was before.                       *)
(***************************************************************************)
RoleRank(role) == CASE role = "user" -> 0 [] role = "moderator" -> 1 [] role = "admin" -> 2

PromoteNeverLowers ==
    [][(last'.op = "promote" /\ last'.ok) =>
          RoleRank(users'[last'.target].role) >= RoleRank(RoleRead(last'.target))]_vars

(***************************************************************************)
(* C36  Every admin-only command (/broadcast, /users, /promote, /demote,   *)
(* /owner, /status) admits exactly the callers for whom is_admin holds,    *)
(* the users whose stored role /promote set to admin and who are not on    *)
(* the allow-list included.                                                *)
(***************************************************************************)
AdminCommands == {"broadcast", "users", "promote", "demote", "owner", "status"}

Refusals == {<<"admins_only">>, <<"no_permission">>}

AdminCommandsAdmitAdmins ==
    [][last'.op \in AdminCommands =>
          (last'.reply \notin Refusals <=> IsAdminVal(users, last'.user, clock))]_vars

(***************************************************************************)
(* C37  When the bot token is set, main registers all the handlers and     *)
(* the recurring daily-statistics job with the host scheduler and then     *)
(* reaches the polling state.                                              *)
(***************************************************************************)
MainReachesPolling ==
    (main.pc = "start" /\ main.token) ~>
       (/\ main.pc = "polling"
        /\ main.handlers = Registered
        /\ main.daily = <<"send_daily_stats">>)

(***************************************************************************)
(* C38  Whenever handle_feedback clears waiting_for_feedback and thanks    *)
(* the user, the text submitted is in the feedback store, also when the    *)
(* write to the store fails or the store does not hold a mapping.          *)
(***************************************************************************)
Thanked ==
    /\ last'.op = "message"
    /\ last'.route = "feedback"
    /\ last'.reply = <<"thanks">>
    /\ ~users'[last'.user].waiting_for_feedback

ThankedFeedbackIsStored ==
    [][Thanked =>
         \E k \in DOMAIN feedbacks' \ {-1} :
            /\ feedbacks'[k].user_id = last'.user
            /\ feedbacks'[k].text = last'.text]_vars

(***************************************************************************)
(* C39  When the handling of an update ends in an unexpected error that    *)
(* the top-level error handler takes, the user's stored record is what it  *)
(* was before the update, also for the presses of the buttons start_chat   *)
(* and give_feedback.                                                      *)
(***************************************************************************)
Unexpected == {"AttributeError", "KeyError"}

EndsInError == last'.op # "none" /\ last'.route \in Unexpected

ErrorLeavesRecord ==
    [][EndsInError =>
          /\ last'.user \in DOMAIN users
          /\ users'[last'.user] = users[last'.user]]_vars
====
